---- MODULE Spec2Model ----
(***************************************************************************)
(* A model of pydash's lazy chaining engine (pydash/chaining.py) and of    *)
(* the deep-path tokenizer (pydash/utilities.py) with the path resolver    *)
(* that consumes its tokens, and of the retry, memoize and unique_id       *)
(* utilities (pydash/utilities.py).                                        *)
(*                                                                         *)
(* Python objects live in heaps: `chains` holds the Chain objects and      *)
(* `wrappers` the ChainWrapper objects, both addressed by their index.     *)
(* Python strings are sequences of one-character strings.                  *)
(***************************************************************************)
EXTENDS Integers, Sequences, FiniteSets, TLC

VARIABLES
    chains,     \* heap of Chain objects: [value: Slot]
    wrappers,   \* heap of ChainWrapper objects: [value: Slot, method, args, kargs]
    log,        \* history: every registry function invocation, in order
    captured,   \* history: per Chain, the arguments of the call that built it
    last,       \* outcome of the latest API call (return value or exception)
    ncalls,     \* number of API calls made so far
    tvalue,     \* the path spec handed to to_path_tokens
    tokens,     \* what to_path_tokens returned for it
    tpc,        \* "input" before the call, "done" after it
    robj,       \* the nested structure the path resolver works on
    rset,       \* history: the latest set (path, value, structure before)
    rlast,      \* outcome of the latest get or has
    rpc,        \* "start", "written" after a set, "read" after a get or has
    rtcfg,      \* the arguments retry was given
    rtattempt,  \* retry.decorated: the loop variable attempt
    rtdelay,    \* retry.decorated: delay_time
    rtpc,       \* where the decorated call stands
    rtlog,      \* history: calls of func and on_exception, sleeps, in order
    rtout,      \* what the decorated call returned or raised
    mresolver,  \* memoize: whether a resolver was given
    mcache,     \* memoized.cache: a set of <<key, result>> pairs
    mlog,       \* history: every invocation of the wrapped func, in order
    mlast,      \* outcome of the latest call of the memoized function
    mcount,     \* number of calls of the memoized function so far
    ID_COUNTER, \* the module global ID_COUNTER
    ids,        \* history: the strings unique_id returned, in order
    taps,       \* history: every invocation of a tap interceptor, in order
    tappc,      \* where the tap behaviour stands
    mthreads,   \* per thread, where its memoized() call stands
    mlock,      \* the callers' external lock around memoized(), if they use one
    rngargs,    \* the arguments given to range_ and range_right
    rngleft,    \* what range_(*args) yielded
    rngright,   \* what range_right(*args) yielded
    rngpc       \* "input" before the two calls, "done" after them

chainVars == <<chains, wrappers, log, captured, last, ncalls>>
tokenVars == <<tvalue, tokens, tpc>>
resolverVars == <<robj, rset, rlast, rpc>>
retryVars == <<rtcfg, rtattempt, rtdelay, rtpc, rtlog, rtout>>
memoVars == <<mresolver, mcache, mlog, mlast, mcount>>
idVars == <<ID_COUNTER, ids>>
tapVars == <<taps, tappc>>
threadVars == <<mthreads, mlock>>
rangeVars == <<rngargs, rngleft, rngright, rngpc>>
moreVars == <<tapVars, threadVars, rangeVars>>
utilVars == <<retryVars, memoVars, idVars, moreVars>>
vars == <<chainVars, tokenVars, resolverVars, utilVars>>

\* What the chaining operations leave alone.
notChainVars == <<tokenVars, resolverVars, utilVars>>

\* The parts of the state a behaviour does not use.
RetryIdle ==
    /\ rtcfg = 0 /\ rtattempt = 0 /\ rtdelay = 0
    /\ rtpc = "idle" /\ rtlog = <<>> /\ rtout = 0
MemoIdle ==
    /\ mresolver = FALSE /\ mcache = {} /\ mlog = <<>>
    /\ mlast = 0 /\ mcount = 0
IdIdle == ID_COUNTER = 0 /\ ids = <<>>
TapIdle == taps = <<>> /\ tappc = "idle"
ThreadsIdle == mthreads = <<>> /\ mlock = [used |-> FALSE, owner |-> 0]
RangeIdle ==
    /\ rngargs = <<>> /\ rngleft = <<>> /\ rngright = <<>>
    /\ rngpc = "idle"

\* ------------------------------------------------------------------ bounds

\* The number of API calls (chain, attribute access, builder call, value,
\* to_string) a behaviour makes.
MaxCalls == 6

\* The number of pieces (PathAtoms) a path string is put together from.
MaxPieces == 4

\* The number of keys and indexes of a path handed to the resolver.
MaxPathTokens == 2

\* The largest `attempts` argument given to retry.
MaxAttempts == 3

\* The number of calls of the memoized function.
MaxMemoCalls == 3

\* The number of calls of unique_id.
MaxIds == 11

\* The largest absolute value of an argument of range_ and range_right.
MaxRange == 3

\* The number of threads that call one memoized function.
MaxThreads == 2

\* The number of method calls chained after chain(value) in the behaviours
\* with tap.
MaxTapSteps == 3

\* The seed values the model wraps with chain().
Seeds == {3}

\* ------------------------------------------------------------ chain values

\* A value slot (Chain._value, ChainWrapper._value): a plain value, or a
\* reference to a ChainWrapper object.
Val(n) == [ref |-> FALSE, v |-> n]
Ref(w) == [ref |-> TRUE, v |-> w]

\* isinstance(x, ChainWrapper)
IsChainWrapper(slot) == slot.ref

NoExc == [type |-> "", msg |-> <<>>, at |-> 0]

\* ---------------------------------------------------------------- registry

\* The names looked up on the pydash package by the model.
FunctionNames == {"add", "multiply", "identity"}
AttrNames == FunctionNames \cup {"__version__", "not_a_real_fn"}

\* getattr(pyd, attr, None): what the package binds the name to.
PydAttr(attr) ==
    CASE attr \in FunctionNames \cup {"tap"} -> "function"
      [] attr = "__version__" -> "str"
      [] OTHER -> "None"

\* callable(getattr(pyd, attr, None))
Callable(attr) == PydAttr(attr) = "function"

\* The (positional, keyword) arguments the model passes to a builder.
CallArgs ==
    {[args |-> <<4>>, kargs |-> {}], [args |-> <<2>>, kargs |-> {}],
     [args |-> <<>>, kargs |-> {<<"b", 2>>}], [args |-> <<>>, kargs |-> {}]}

Returned(v) == [ok |-> TRUE, ret |-> v, type |-> ""]
Raised(t) == [ok |-> FALSE, ret |-> 0, type |-> t]

\* identity(arg=None, *args): returns its first argument; takes no keyword
\* but `arg`, which chaining always passes positionally.
identity(value, args, kargs) ==
    IF kargs = {} THEN Returned(value) ELSE Raised("TypeError")

\* Binding the parameters of a two-parameter numerical function f(a, b)
\* called as f(value, *args, **kargs): b has to be bound exactly once.
BindB(args, kargs) ==
    IF Len(args) = 1 /\ kargs = {}
    THEN [ok |-> TRUE, b |-> args[1]]
    ELSE IF Len(args) = 0 /\ Cardinality(kargs) = 1
              /\ \A kv \in kargs : kv[1] = "b"
         THEN [ok |-> TRUE, b |-> (CHOOSE kv \in kargs : TRUE)[2]]
         ELSE [ok |-> FALSE, b |-> 0]

add(value, args, kargs) ==
    IF BindB(args, kargs).ok
    THEN Returned(value + BindB(args, kargs).b)
    ELSE Raised("TypeError")

multiply(value, args, kargs) ==
    IF BindB(args, kargs).ok
    THEN Returned(value * BindB(args, kargs).b)
    ELSE Raised("TypeError")

\* The interceptors the model passes to tap: functions that return 99 or
\* None (0) whatever they are given, and one that raises.
Interceptors == {Returned(99), Returned(0), Raised("RuntimeError")}

\* interceptor(value): what the call returns or raises.
InterceptorCall(interceptor, value) == interceptor

\* A tap that returns what the interceptor returned.
tap_ReturnsInterceptorResult(value, interceptor) ==
    [calls |-> <<[arg |-> value,
                  outcome |-> InterceptorCall(interceptor, value)]>>,
     out |-> InterceptorCall(interceptor, value)]

\* tap(value, interceptor): the interceptor calls it makes, and what it
\* returns or raises.
tap(value, interceptor) ==
    [calls |-> <<[arg |-> value,
                  outcome |-> InterceptorCall(interceptor, value)]>>,
     out |-> IF InterceptorCall(interceptor, value).ok
             THEN Returned(value)
             ELSE InterceptorCall(interceptor, value)]

\* tap(value, *args, **kargs) has its interceptor parameter bound.
TapBound(args, kargs) == Len(args) = 1 /\ kargs = {}

\* method(value, *args, **kargs) for a registry function.
RegistryCall(method, value, args, kargs) ==
    CASE method = "add" -> add(value, args, kargs)
      [] method = "multiply" -> multiply(value, args, kargs)
      [] method = "tap" ->
            IF TapBound(args, kargs) THEN tap(value, args[1]).out
            ELSE Raised("TypeError")
      [] OTHER -> identity(value, args, kargs)

\* ------------------------------------------------------------ ChainWrapper

\* ChainWrapper.__init__(value, method)
ChainWrapperInit(value, method) ==
    [value |-> value, method |-> method, args |-> <<>>, kargs |-> {}]

LogEntry(w, obj, value, r, at) ==
    [w |-> w, method |-> obj.method, value |-> value, args |-> obj.args,
     kargs |-> obj.kargs, raised |-> ~r.ok,
     exc |-> IF r.ok THEN NoExc
             ELSE [type |-> r.type, msg |-> <<obj.method>>, at |-> at]]

RECURSIVE unwrap(_, _, _)

\* unwrap with the upstream wrapper's stored value taken as it is, its own
\* method never run.
unwrap_NoRecursion(ws, lg, w) ==
    LET v == IF IsChainWrapper(ws[w].value)
             THEN ws[ws[w].value.v].value.v
             ELSE ws[w].value.v
        ws1 == [ws EXCEPT ![w].value = Val(v)]
        r == RegistryCall(ws1[w].method, v, ws1[w].args, ws1[w].kargs)
        e == LogEntry(w, ws1[w], v, r, Len(lg) + 1)
    IN  [ws |-> ws1, log |-> Append(lg, e), ok |-> r.ok, ret |-> r.ret,
         exc |-> e.exc]

\* unwrap with an upstream failure caught and the method run on None (0).
unwrap_Swallow(ws, lg, w) ==
    LET up == IF IsChainWrapper(ws[w].value)
              THEN unwrap(ws, lg, ws[w].value.v)
              ELSE [ws |-> ws, log |-> lg, ok |-> TRUE,
                    ret |-> ws[w].value.v, exc |-> NoExc]
        v == IF up.ok THEN up.ret ELSE 0
        ws1 == [up.ws EXCEPT ![w].value = Val(v)]
        r == RegistryCall(ws1[w].method, v, ws1[w].args, ws1[w].kargs)
        e == LogEntry(w, ws1[w], v, r, Len(up.log) + 1)
    IN  [ws |-> ws1, log |-> Append(up.log, e), ok |-> r.ok, ret |-> r.ret,
         exc |-> e.exc]

\* ChainWrapper.unwrap on wrapper w in heap ws with invocation history lg:
\* the heap and history afterwards, and the value returned or the exception
\* raised.
unwrap(ws, lg, w) ==
    LET up == IF IsChainWrapper(ws[w].value)
              THEN unwrap(ws, lg, ws[w].value.v)
              ELSE [ws |-> ws, log |-> lg, ok |-> TRUE,
                    ret |-> ws[w].value.v, exc |-> NoExc]
    IN  IF ~up.ok
        THEN up
        ELSE LET ws1 == [up.ws EXCEPT ![w].value = Val(up.ret)]
                 r == RegistryCall(ws1[w].method, up.ret, ws1[w].args,
                                   ws1[w].kargs)
                 e == LogEntry(w, ws1[w], up.ret, r, Len(up.log) + 1)
             IN  [ws |-> ws1, log |-> Append(up.log, e), ok |-> r.ok,
                  ret |-> r.ret, exc |-> e.exc]

\* ChainWrapper.__call__(*args, **kargs), up to the Chain it returns.
ChainWrapperCall(ws, w, args, kargs) ==
    [ws EXCEPT ![w].args = args, ![w].kargs = kargs]

\* ------------------------------------------------------------------- Chain

\* Chain.__init__(value)
ChainInit(value) == [value |-> value]

\* Chain.value that returns the unwrapped result without storing it.
ChainValue_NoMemo(cs, ws, lg, c) ==
    IF IsChainWrapper(cs[c].value)
    THEN LET r == unwrap(ws, lg, cs[c].value.v)
         IN  [chains |-> cs, ws |-> r.ws, log |-> r.log, ok |-> r.ok,
              ret |-> r.ret, exc |-> r.exc]
    ELSE [chains |-> cs, ws |-> ws, log |-> lg, ok |-> TRUE,
          ret |-> cs[c].value.v, exc |-> NoExc]

\* Chain.value on chain c: heaps and history afterwards, and the outcome.
ChainValue(cs, ws, lg, c) ==
    IF IsChainWrapper(cs[c].value)
    THEN LET r == unwrap(ws, lg, cs[c].value.v)
         IN  IF r.ok
             THEN [chains |-> [cs EXCEPT ![c].value = Val(r.ret)],
                   ws |-> r.ws, log |-> r.log, ok |-> TRUE, ret |-> r.ret,
                   exc |-> NoExc]
             ELSE [chains |-> cs, ws |-> r.ws, log |-> r.log, ok |-> FALSE,
                   ret |-> 0, exc |-> r.exc]
    ELSE [chains |-> cs, ws |-> ws, log |-> lg, ok |-> TRUE,
          ret |-> cs[c].value.v, exc |-> NoExc]

\* Chain.__getattr__ as it was before chaining was made lazy:
\* ChainWrapper(self.value(), method).
ChainGetAttr_Eager(cs, ws, lg, c, attr) ==
    IF Callable(attr)
    THEN LET r == ChainValue(cs, ws, lg, c)
         IN  IF r.ok
             THEN [chains |-> r.chains,
                   ws |-> Append(r.ws, ChainWrapperInit(Val(r.ret), attr)),
                   log |-> r.log, ok |-> TRUE, ret |-> Len(ws) + 1,
                   exc |-> NoExc]
             ELSE [chains |-> r.chains, ws |-> r.ws, log |-> r.log,
                   ok |-> FALSE, ret |-> 0, exc |-> r.exc]
    ELSE [chains |-> cs, ws |-> ws, log |-> lg, ok |-> FALSE, ret |-> 0,
          exc |-> [type |-> "InvalidMethod",
                   msg |-> <<"Invalid pydash method: ", attr>>, at |-> 0]]

\* Chain.__getattr__ without the callable() test: any name yields a builder.
ChainGetAttr_Deferred(cs, ws, lg, c, attr) ==
    [chains |-> cs, ws |-> Append(ws, ChainWrapperInit(cs[c].value, attr)),
     log |-> lg, ok |-> TRUE, ret |-> Len(ws) + 1, exc |-> NoExc]

\* Chain.__getattr__(attr) on chain c: heaps and history afterwards, and the
\* new ChainWrapper (its index in the heap) or the InvalidMethod raised.
ChainGetAttr(cs, ws, lg, c, attr) ==
    IF Callable(attr)
    THEN [chains |-> cs, ws |-> Append(ws, ChainWrapperInit(cs[c].value, attr)),
          log |-> lg, ok |-> TRUE, ret |-> Len(ws) + 1, exc |-> NoExc]
    ELSE [chains |-> cs, ws |-> ws, log |-> lg, ok |-> FALSE, ret |-> 0,
          exc |-> [type |-> "InvalidMethod",
                   msg |-> <<"Invalid pydash method: ", attr>>, at |-> 0]]

Digits == <<"0", "1", "2", "3", "4", "5", "6", "7", "8", "9">>

RECURSIVE NatToString(_)
NatToString(n) ==
    IF n < 10 THEN <<Digits[n + 1]>>
    ELSE Append(NatToString(n \div 10), Digits[(n % 10) + 1])

\* pyd.to_string on an integer.
to_string(n) == IF n < 0 THEN <<"-">> \o NatToString(-n) ELSE NatToString(n)

\* The outcome of an API call, as the caller observes it: what it returned
\* or raised, and how many registry functions ran during the call.
Outcome(op, target, name, ok, ret, str, exc, invoked) ==
    [op |-> op, target |-> target, name |-> name, ok |-> ok, ret |-> ret,
     str |-> str, exc |-> exc, invoked |-> invoked]

\* ----------------------------------------------------------------- actions

InitChain ==
    /\ chains = <<>>
    /\ wrappers = <<>>
    /\ log = <<>>
    /\ captured = <<>>
    /\ last = Outcome("init", 0, "", TRUE, 0, <<>>, NoExc, 0)
    /\ ncalls = 0
    /\ tvalue = <<>> /\ tokens = <<>> /\ tpc = "idle"
    /\ robj = 0 /\ rset = 0 /\ rlast = 0 /\ rpc = "idle"
    /\ RetryIdle /\ MemoIdle /\ IdIdle
    /\ TapIdle /\ ThreadsIdle /\ RangeIdle

Tick == ncalls < MaxCalls /\ ncalls' = ncalls + 1

\* chain(value)
NewChain(seed) ==
    /\ Tick
    /\ chains' = Append(chains, ChainInit(Val(seed)))
    /\ captured' = Append(captured, [w |-> 0, args |-> <<>>, kargs |-> {}])
    /\ last' = Outcome("chain", Len(chains) + 1, "", TRUE, seed, <<>>, NoExc,
                        0)
    /\ UNCHANGED <<wrappers, log, notChainVars>>

\* c.<attr>
GetAttr(c, attr) ==
    LET r == ChainGetAttr(chains, wrappers, log, c, attr)
    IN  /\ Tick
        /\ chains' = r.chains
        /\ wrappers' = r.ws
        /\ log' = r.log
        /\ last' = Outcome("getattr", c, attr, r.ok, r.ret, <<>>, r.exc,
                           Len(r.log) - Len(log))
        /\ UNCHANGED <<captured, notChainVars>>

\* w(*args, **kargs) on the builder w returned by an attribute access
Call(w, args, kargs) ==
    /\ Tick
    /\ wrappers' = ChainWrapperCall(wrappers, w, args, kargs)
    /\ chains' = Append(chains, ChainInit(Ref(w)))
    /\ captured' = Append(captured, [w |-> w, args |-> args, kargs |-> kargs])
    /\ last' = Outcome("call", w, "", TRUE, Len(chains) + 1, <<>>, NoExc, 0)
    /\ UNCHANGED <<log, notChainVars>>

\* c.value()
Value(c) ==
    LET r == ChainValue(chains, wrappers, log, c)
    IN  /\ Tick
        /\ chains' = r.chains
        /\ wrappers' = r.ws
        /\ log' = r.log
        /\ last' = Outcome("value", c, "", r.ok, r.ret, <<>>, r.exc,
                           Len(r.log) - Len(log))
        /\ UNCHANGED <<captured, notChainVars>>

\* c.to_string()
ChainToString(c) ==
    LET r == ChainValue(chains, wrappers, log, c)
    IN  /\ Tick
        /\ chains' = r.chains
        /\ wrappers' = r.ws
        /\ log' = r.log
        /\ last' = Outcome("to_string", c, "", r.ok, 0,
                           IF r.ok THEN to_string(r.ret) ELSE <<>>, r.exc,
                           Len(r.log) - Len(log))
        /\ UNCHANGED <<captured, notChainVars>>

NextChain ==
    \/ \E seed \in Seeds : NewChain(seed)
    \/ \E c \in 1..Len(chains), attr \in AttrNames : GetAttr(c, attr)
    \/ \E w \in 1..Len(wrappers), a \in CallArgs : Call(w, a.args, a.kargs)
    \/ \E c \in 1..Len(chains) : Value(c)
    \/ \E c \in 1..Len(chains) : ChainToString(c)

SpecChain == InitChain /\ [][NextChain]_vars

\* --------------------------------------------------------------------- tap

\* The arguments the model passes to a builder in the behaviours with tap:
\* an interceptor to tap, a number to add and multiply.
TapStepArgs(attr) ==
    IF attr = "tap" THEN {<<i>> : i \in Interceptors} ELSE {<<4>>, <<2>>}
TapStepNames == {"add", "multiply", "tap"}

\* The values the model passes to a direct call of tap.
TapValues == {3, 5}

\* The interceptor calls made by the registry invocations lg[from..].
RECURSIVE InterceptorCalls(_, _)
InterceptorCalls(lg, from) ==
    IF from > Len(lg) THEN <<>>
    ELSE (IF lg[from].method = "tap" /\ TapBound(lg[from].args, lg[from].kargs)
          THEN tap(lg[from].value, lg[from].args[1]).calls
          ELSE <<>>) \o InterceptorCalls(lg, from + 1)

TapRest ==
    <<ncalls, tokenVars, resolverVars, retryVars, memoVars, idVars,
      threadVars, rangeVars>>

InitTap ==
    /\ chains = <<>> /\ wrappers = <<>> /\ log = <<>> /\ captured = <<>>
    /\ last = Outcome("init", 0, "", TRUE, 0, <<>>, NoExc, 0)
    /\ ncalls = 0
    /\ taps = <<>> /\ tappc = "start"
    /\ tvalue = <<>> /\ tokens = <<>> /\ tpc = "idle"
    /\ robj = 0 /\ rset = 0 /\ rlast = 0 /\ rpc = "idle"
    /\ RetryIdle /\ MemoIdle /\ IdIdle
    /\ ThreadsIdle /\ RangeIdle

\* tap(value, interceptor), called directly.
TapDirect(value, interceptor) ==
    /\ tappc = "start"
    /\ taps' = taps \o tap(value, interceptor).calls
    /\ last' = Outcome("tap", value, "tap", tap(value, interceptor).out.ok,
                       tap(value, interceptor).out.ret, <<>>,
                       IF tap(value, interceptor).out.ok THEN NoExc
                       ELSE [type |-> tap(value, interceptor).out.type,
                             msg |-> <<"tap">>, at |-> 0],
                       0)
    /\ tappc' = "direct"
    /\ UNCHANGED <<chains, wrappers, log, captured, TapRest>>

\* chain(value)
TapNewChain(seed) ==
    /\ tappc = "start"
    /\ chains' = Append(chains, ChainInit(Val(seed)))
    /\ captured' = Append(captured, [w |-> 0, args |-> <<>>, kargs |-> {}])
    /\ last' = Outcome("chain", Len(chains) + 1, "", TRUE, seed, <<>>, NoExc,
                        0)
    /\ tappc' = "chain"
    /\ UNCHANGED <<wrappers, log, taps, TapRest>>

\* c.<attr> on the chain built last
TapGetAttr(attr) ==
    LET r == ChainGetAttr(chains, wrappers, log, Len(chains), attr)
    IN  /\ tappc = "chain"
        /\ Len(wrappers) < MaxTapSteps
        /\ chains' = r.chains
        /\ wrappers' = r.ws
        /\ log' = r.log
        /\ last' = Outcome("getattr", Len(chains), attr, r.ok, r.ret, <<>>,
                           r.exc, Len(r.log) - Len(log))
        /\ tappc' = "builder"
        /\ UNCHANGED <<captured, taps, TapRest>>

\* w(*args) on the builder the attribute access returned
TapCall(attr, args) ==
    /\ tappc = "builder"
    /\ wrappers[Len(wrappers)].method = attr
    /\ wrappers' = ChainWrapperCall(wrappers, Len(wrappers), args, {})
    /\ chains' = Append(chains, ChainInit(Ref(Len(wrappers))))
    /\ captured' = Append(captured,
                          [w |-> Len(wrappers), args |-> args, kargs |-> {}])
    /\ last' = Outcome("call", Len(wrappers), "", TRUE, Len(chains) + 1, <<>>,
                       NoExc, 0)
    /\ tappc' = "chain"
    /\ UNCHANGED <<log, taps, TapRest>>

\* c.value() on the chain built last; the interceptors run inside it.
TapValue ==
    LET r == ChainValue(chains, wrappers, log, Len(chains))
    IN  /\ tappc = "chain"
        /\ chains' = r.chains
        /\ wrappers' = r.ws
        /\ log' = r.log
        /\ taps' = taps \o InterceptorCalls(r.log, Len(log) + 1)
        /\ last' = Outcome("value", Len(chains), "", r.ok, r.ret, <<>>, r.exc,
                           Len(r.log) - Len(log))
        /\ tappc' = "done"
        /\ UNCHANGED <<captured, TapRest>>

NextTap ==
    \/ \E value \in TapValues, i \in Interceptors : TapDirect(value, i)
    \/ \E seed \in Seeds : TapNewChain(seed)
    \/ \E attr \in TapStepNames : TapGetAttr(attr)
    \/ \E attr \in TapStepNames : \E args \in TapStepArgs(attr) :
            TapCall(attr, args)
    \/ TapValue

SpecTap == InitTap /\ [][NextTap]_vars

\* ---------------------------------------------------------- path tokenizer

\* A key of a path: a string or an integer.
StrKey(s) == [str |-> TRUE, s |-> s, n |-> 0]
IntKey(n) == [str |-> FALSE, s |-> <<>>, n |-> n]

\* PathToken(key, default_factory); default_factory is dict or list.
PathToken(key, default_factory) ==
    [token |-> TRUE, key |-> key, default_factory |-> default_factory]

\* An element of a path given as a list: handed on as it is, no PathToken.
RawKey(key) == [token |-> FALSE, key |-> key, default_factory |-> ""]

\* The values to_path_tokens is given: a string, a number, UNSET or a list
\* of keys.
StrValue(s) == [kind |-> "str", s |-> s, n |-> 0, l |-> <<>>]
NumValue(n) == [kind |-> "num", s |-> <<>>, n |-> n, l |-> <<>>]
ListValue(l) == [kind |-> "list", s |-> <<>>, n |-> 0, l |-> l]
UNSET == [kind |-> "unset", s |-> <<>>, n |-> 0, l |-> <<>>]

IsDigit(c) == c \in {"0", "1", "2", "3", "4", "5", "6", "7", "8", "9"}
DigitValue(c) == (CHOOSE d \in 1..10 : Digits[d] = c) - 1

RECURSIVE BackslashRun(_, _)
\* The number of consecutive backslashes of s from position i on.
BackslashRun(s, i) ==
    IF i <= Len(s) /\ s[i] = "\\" THEN 1 + BackslashRun(s, i + 1) ELSE 0

RECURSIVE DigitRun(_, _)
\* The number of consecutive digits of s from position i on.
DigitRun(s, i) ==
    IF i <= Len(s) /\ IsDigit(s[i]) THEN 1 + DigitRun(s, i + 1) ELSE 0

\* RE_PATH_KEY_DELIM, first alternative, (?<!\\)(?:\\\\)*\. tried at position
\* i of s: the length of the match, 0 when there is none. The character
\* before i is no backslash; pairs of backslashes follow, then the dot.
DelimMatchLen(s, i) ==
    LET m == BackslashRun(s, i)
    IN  IF /\ (i = 1 \/ s[i - 1] # "\\")
           /\ m % 2 = 0
           /\ i + m <= Len(s)
           /\ s[i + m] = "."
        THEN m + 1
        ELSE 0

\* \[\d+\] without the optional minus sign.
IndexMatchLen_NoMinus(s, i) ==
    IF i <= Len(s) /\ s[i] = "["
    THEN LET d == DigitRun(s, i + 1)
         IN  IF d >= 1 /\ i + 1 + d <= Len(s) /\ s[i + 1 + d] = "]"
             THEN d + 2
             ELSE 0
    ELSE 0

\* RE_PATH_KEY_DELIM, second alternative, and RE_PATH_LIST_INDEX:
\* \[-?\d+\] tried at position i of s: the length of the match, 0 when there
\* is none.
IndexMatchLen(s, i) ==
    IF i <= Len(s) /\ s[i] = "["
    THEN LET j == IF i + 1 <= Len(s) /\ s[i + 1] = "-" THEN i + 2 ELSE i + 1
             d == DigitRun(s, j)
         IN  IF d >= 1 /\ j + d <= Len(s) /\ s[j + d] = "]"
             THEN j + d - i + 1
             ELSE 0
    ELSE 0

RECURSIVE Search(_, _)
\* RE_PATH_KEY_DELIM searched in s from position p on: where the leftmost
\* match starts, 0 when there is none.
Search(s, p) ==
    IF p > Len(s) THEN 0
    ELSE IF DelimMatchLen(s, p) > 0 \/ IndexMatchLen(s, p) > 0 THEN p
    ELSE Search(s, p + 1)

\* An item of the list re.split returns: a string, or None for the group of
\* a match that did not take part.
Piece(s) == [none |-> FALSE, s |-> s]
NonePiece == [none |-> TRUE, s |-> <<>>]

RECURSIVE SplitFrom(_, _)
\* RE_PATH_KEY_DELIM.split(s), from position p on: the text before each
\* match, then the match's group (the bracketed integer, or None after a
\* dot), and the text after the last match.
SplitFrom(s, p) ==
    LET i == Search(s, p)
    IN  IF i = 0
        THEN <<Piece(SubSeq(s, p, Len(s)))>>
        ELSE IF DelimMatchLen(s, i) > 0
             THEN <<Piece(SubSeq(s, p, i - 1)), NonePiece>>
                      \o SplitFrom(s, i + DelimMatchLen(s, i))
             ELSE <<Piece(SubSeq(s, p, i - 1)),
                    Piece(SubSeq(s, i, i + IndexMatchLen(s, i) - 1))>>
                      \o SplitFrom(s, i + IndexMatchLen(s, i))

\* A filter that drops None only and keeps the empty string.
Truthy_KeepEmpty(piece) == ~piece.none

\* What filter(None, ...) keeps: neither None nor the empty string.
Truthy(piece) == ~piece.none /\ piece.s # <<>>

\* RE_PATH_LIST_INDEX.match(key): the whole key is a bracketed integer.
IsListIndex(key) == Len(key) > 0 /\ IndexMatchLen(key, 1) = Len(key)

RECURSIVE DigitsToNat(_)
DigitsToNat(s) ==
    IF s = <<>> THEN 0
    ELSE DigitsToNat(SubSeq(s, 1, Len(s) - 1)) * 10 + DigitValue(s[Len(s)])

\* int(text) for an optional minus sign and digits.
int(s) == IF s[1] = "-" THEN 0 - DigitsToNat(Tail(s)) ELSE DigitsToNat(s)

RECURSIVE StrReplace(_, _, _, _)
\* s.replace(old, new) for the two-character string old = a b and a
\* one-character new: left to right, matches do not overlap.
StrReplace(s, a, b, new) ==
    IF Len(s) < 2 THEN s
    ELSE IF s[1] = a /\ s[2] = b
         THEN <<new>> \o StrReplace(SubSeq(s, 3, Len(s)), a, b, new)
         ELSE <<s[1]>> \o StrReplace(Tail(s), a, b, new)

\* unescape_path_key
unescape_path_key(key) ==
    StrReplace(StrReplace(key, "\\", "\\", "\\"), "\\", ".", ".")

\* The PathToken of one kept item of the split.
KeyToken(piece) ==
    IF IsListIndex(piece.s)
    THEN PathToken(IntKey(int(SubSeq(piece.s, 2, Len(piece.s) - 1))), "list")
    ELSE PathToken(StrKey(unescape_path_key(piece.s)), "dict")

Contains(s, c) == \E i \in DOMAIN s : s[i] = c

\* to_path_tokens(value)
to_path_tokens(value) ==
    IF value.kind = "str" /\ (Contains(value.s, ".") \/ Contains(value.s, "["))
    THEN LET keys == SelectSeq(SplitFrom(value.s, 1), Truthy)
         IN  [i \in DOMAIN keys |-> KeyToken(keys[i])]
    ELSE IF value.kind = "str" THEN <<PathToken(StrKey(value.s), "dict")>>
    ELSE IF value.kind = "num" THEN <<PathToken(IntKey(value.n), "dict")>>
    ELSE IF value.kind = "unset" THEN <<>>
    ELSE [i \in DOMAIN value.l |-> RawKey(value.l[i])]

\* The pieces the model puts path strings together from: every character of
\* the path grammar, and two whole bracketed integers.
PathAtoms ==
    {<<"a">>, <<"b">>, <<".">>, <<"[">>, <<"]">>, <<"0">>, <<"-">>, <<"\\">>,
     <<"[", "0", "]">>, <<"[", "-", "1", "]">>}

RECURSIVE Concats(_)
\* The strings made of at most n pieces.
Concats(n) ==
    IF n = 0 THEN {<<>>}
    ELSE Concats(n - 1) \cup {s \o a : s \in Concats(n - 1), a \in PathAtoms}

\* The lists of keys the model hands to to_path_tokens.
ListKeys == {StrKey(<<"a">>), StrKey(<<"a", ".", "b">>), IntKey(0)}
KeyLists == {<<>>} \cup {<<k>> : k \in ListKeys}
               \cup {<<k1, k2>> : k1 \in ListKeys, k2 \in ListKeys}

TokenInputs ==
    {StrValue(s) : s \in Concats(MaxPieces)}
        \cup {NumValue(0), UNSET} \cup {ListValue(l) : l \in KeyLists}

InitTokens ==
    /\ tvalue \in TokenInputs
    /\ tokens = <<>>
    /\ tpc = "input"
    /\ chains = <<>> /\ wrappers = <<>> /\ log = <<>> /\ captured = <<>>
    /\ last = Outcome("init", 0, "", TRUE, 0, <<>>, NoExc, 0)
    /\ ncalls = 0
    /\ robj = 0 /\ rset = 0 /\ rlast = 0 /\ rpc = "idle"
    /\ RetryIdle /\ MemoIdle /\ IdIdle
    /\ TapIdle /\ ThreadsIdle /\ RangeIdle

\* to_path_tokens(tvalue)
Tokenize ==
    /\ tpc = "input"
    /\ tokens' = to_path_tokens(tvalue)
    /\ tpc' = "done"
    /\ UNCHANGED <<tvalue, chainVars, resolverVars, utilVars>>

NextTokens == Tokenize

SpecTokens == InitTokens /\ [][NextTokens]_vars

\* ----------------------------------------------------------- path resolver

\* The values of a nested structure: an integer, None, a mapping (a set of
\* <<key, value>> pairs, one per key) or a sequence. DefaultV is the default
\* handed to get, a value no structure holds.
IntV(n) == [t |-> "int", n |-> n, m |-> {}, l |-> <<>>]
NoneV == [t |-> "none", n |-> 0, m |-> {}, l |-> <<>>]
MapV(m) == [t |-> "map", n |-> 0, m |-> m, l |-> <<>>]
ListV(l) == [t |-> "list", n |-> 0, m |-> {}, l |-> l]
DefaultV == [t |-> "default", n |-> 0, m |-> {}, l |-> <<>>]

MapHas(m, k) == \E e \in m : e[1] = k
MapGet(m, k) == (CHOOSE e \in m : e[1] = k)[2]
MapPut(m, k, v) == {e \in m : e[1] # k} \cup {<<k, v>>}

\* The container kind a token addresses: its default_factory; for the
\* element of a path given as a list, Sequence if it is an integer.
TokenKind(tok) ==
    IF tok.token THEN tok.default_factory
    ELSE IF tok.key.str THEN "dict" ELSE "list"

\* The position in sequence l that index i addresses (negative indexes count
\* from the end), 1-based.
ListPos(l, i) == IF i >= 0 THEN i + 1 ELSE Len(l) + i + 1

\* Reading a Sequence-kind token against a mapping as a lookup of the
\* integer key, and a Mapping-kind token strictly.
Lookup_IntKeyInMapping(cur, tok) ==
    IF cur.t = "map" /\ MapHas(cur.m, tok.key)
    THEN [found |-> TRUE, v |-> MapGet(cur.m, tok.key)]
    ELSE IF /\ TokenKind(tok) = "list" /\ cur.t = "list"
            /\ ListPos(cur.l, tok.key.n) \in 1..Len(cur.l)
         THEN [found |-> TRUE, v |-> cur.l[ListPos(cur.l, tok.key.n)]]
         ELSE [found |-> FALSE, v |-> DefaultV]

\* One step of the walk: the value the token addresses in cur. A miss when
\* cur is no container, when the token's kind is not cur's kind, when the
\* key is absent or the index out of range.
Lookup(cur, tok) ==
    IF /\ TokenKind(tok) = "dict" /\ cur.t = "map"
       /\ MapHas(cur.m, tok.key)
    THEN [found |-> TRUE, v |-> MapGet(cur.m, tok.key)]
    ELSE IF /\ TokenKind(tok) = "list" /\ cur.t = "list"
            /\ ListPos(cur.l, tok.key.n) \in 1..Len(cur.l)
         THEN [found |-> TRUE, v |-> cur.l[ListPos(cur.l, tok.key.n)]]
         ELSE [found |-> FALSE, v |-> DefaultV]

RECURSIVE Walk(_, _, _)
\* The walk of tokens i.. from cur: stops at the first miss.
Walk(cur, toks, i) ==
    IF i > Len(toks) THEN [found |-> TRUE, v |-> cur]
    ELSE IF Lookup(cur, toks[i]).found
         THEN Walk(Lookup(cur, toks[i]).v, toks, i + 1)
         ELSE [found |-> FALSE, v |-> DefaultV]

\* get(structure, path, default)
get(obj, path, default) ==
    LET r == Walk(obj, to_path_tokens(path), 1)
    IN  IF r.found THEN r.v ELSE default

\* has(structure, path)
has(obj, path) == Walk(obj, to_path_tokens(path), 1).found

\* A container created for a missing step, always a mapping.
FreshContainer_AlwaysDict(kind) == MapV({})

\* The container created for a missing or wrongly shaped step.
FreshContainer(kind) == IF kind = "list" THEN ListV(<<>>) ELSE MapV({})

KindOf(v) == IF v.t = "map" THEN "dict" ELSE IF v.t = "list" THEN "list" ELSE ""

\* Writing x where the token points in container cur.
Assign(cur, tok, x) ==
    IF cur.t = "map" THEN MapV(MapPut(cur.m, tok.key, x))
    ELSE IF ListPos(cur.l, tok.key.n) = Len(cur.l) + 1
         THEN ListV(Append(cur.l, x))
         ELSE ListV([cur.l EXCEPT ![ListPos(cur.l, tok.key.n)] = x])

\* Whether the write is one the design describes: into a mapping, or into a
\* sequence at an index within its range or one past its end.
Assignable(cur, tok) ==
    \/ cur.t = "map"
    \/ /\ cur.t = "list" /\ TokenKind(tok) = "list"
       /\ ListPos(cur.l, tok.key.n) \in 1..(Len(cur.l) + 1)

\* The value set continues in at step i < Len(toks): the existing one when
\* it is a container of the kind the next token asks for, a fresh container
\* of that kind otherwise.
StepInto(cur, toks, i) ==
    IF /\ Lookup(cur, toks[i]).found
       /\ KindOf(Lookup(cur, toks[i]).v) = TokenKind(toks[i + 1])
    THEN Lookup(cur, toks[i]).v
    ELSE FreshContainer(TokenKind(toks[i + 1]))

RECURSIVE SetAt(_, _, _, _)
SetAt(cur, toks, i, value) ==
    IF i = Len(toks) THEN Assign(cur, toks[i], value)
    ELSE Assign(cur, toks[i], SetAt(StepInto(cur, toks, i), toks, i + 1, value))

RECURSIVE Settable(_, _, _)
Settable(cur, toks, i) ==
    /\ Assignable(cur, toks[i])
    /\ i < Len(toks) => Settable(StepInto(cur, toks, i), toks, i + 1)

\* set(structure, path, value) is described for this structure and path.
SetDefined(obj, path) ==
    /\ to_path_tokens(path) # <<>>
    /\ Settable(obj, to_path_tokens(path), 1)

\* set(structure, path, value): the structure afterwards.
set_(obj, path, value) == SetAt(obj, to_path_tokens(path), 1, value)

\* The pieces of the paths handed to the resolver, and the path strings of at
\* most n of them: a key follows what precedes it after a dot, a bracketed
\* index directly.
ResolverAtoms ==
    {<<"a">>, <<"b">>, <<"[", "0", "]">>, <<"[", "1", "]">>,
     <<"[", "-", "1", "]">>}

Join(s, atom) ==
    IF s = <<>> \/ atom[1] = "[" THEN s \o atom ELSE s \o <<".">> \o atom

RECURSIVE PathStrings(_)
PathStrings(n) ==
    IF n = 1 THEN ResolverAtoms
    ELSE PathStrings(n - 1)
            \cup {Join(s, a) : s \in PathStrings(n - 1), a \in ResolverAtoms}

ResolverPaths == {StrValue(s) : s \in PathStrings(MaxPathTokens)}

\* The structures a behaviour starts from: an empty mapping, an empty
\* sequence, and what one set makes of them.
StartValues == {IntV(1), NoneV}
StartStructs ==
    {MapV({}), ListV(<<>>)}
        \cup {set_(root, p, v) : <<root, p, v>> \in
                {x \in {MapV({}), ListV(<<>>)} \X ResolverPaths \X StartValues :
                    SetDefined(x[1], x[2])}}

\* The values the model sets.
SetValues == {IntV(2), NoneV}

NoSet == [done |-> FALSE, path |-> UNSET, val |-> DefaultV, before |-> DefaultV]
NoRead == [op |-> "", path |-> UNSET, ret |-> DefaultV, found |-> FALSE]

InitResolver ==
    /\ robj \in StartStructs
    /\ rset = NoSet
    /\ rlast = NoRead
    /\ rpc = "start"
    /\ chains = <<>> /\ wrappers = <<>> /\ log = <<>> /\ captured = <<>>
    /\ last = Outcome("init", 0, "", TRUE, 0, <<>>, NoExc, 0)
    /\ ncalls = 0
    /\ tvalue = <<>> /\ tokens = <<>> /\ tpc = "idle"
    /\ RetryIdle /\ MemoIdle /\ IdIdle
    /\ TapIdle /\ ThreadsIdle /\ RangeIdle

\* set(robj, path, value)
SetOp(path, value) ==
    /\ rpc = "start"
    /\ SetDefined(robj, path)
    /\ robj' = set_(robj, path, value)
    /\ rset' = [done |-> TRUE, path |-> path, val |-> value, before |-> robj]
    /\ rpc' = "written"
    /\ UNCHANGED <<rlast, chainVars, tokenVars, utilVars>>

\* The paths read in the current state: any at the start, the path just
\* written after a set.
ReadPaths == IF rpc = "written" THEN {rset.path} ELSE ResolverPaths

\* get(robj, path, DefaultV)
GetOp(path) ==
    /\ rpc \in {"start", "written"}
    /\ rlast' = [op |-> "get", path |-> path,
                 ret |-> get(robj, path, DefaultV), found |-> FALSE]
    /\ rpc' = "read"
    /\ UNCHANGED <<robj, rset, chainVars, tokenVars, utilVars>>

\* has(robj, path)
HasOp(path) ==
    /\ rpc \in {"start", "written"}
    /\ rlast' = [op |-> "has", path |-> path, ret |-> DefaultV,
                 found |-> has(robj, path)]
    /\ rpc' = "read"
    /\ UNCHANGED <<robj, rset, chainVars, tokenVars, utilVars>>

NextResolver ==
    \/ \E path \in ResolverPaths, value \in SetValues : SetOp(path, value)
    \/ \E path \in ReadPaths : GetOp(path)
    \/ \E path \in ReadPaths : HasOp(path)

SpecResolver == InitResolver /\ [][NextResolver]_vars

\* -------------------------------------------------------------------- retry

\* The jitter argument: a number, or a 2-item tuple (lo, hi).
JitterNumber(n) == [tuple |-> FALSE, n |-> n, lo |-> 0, hi |-> 0]
JitterTuple(lo, hi) == [tuple |-> TRUE, n |-> 0, lo |-> lo, hi |-> hi]

\* The arguments the model gives retry. An attempts of 0 is one retry
\* rejects; on_exception is None (FALSE) or an observer that records its
\* arguments and returns.
RetryArgs ==
    [attempts : 0..MaxAttempts,
     delay : {0, 2},
     max_delay : {0, 1, 3},
     scale : {1, 2},
     jitter : {JitterNumber(0), JitterNumber(1), JitterTuple(-1, 1)},
     exceptions : {{"Exception"}, {"ValueError"}},
     on_exception : BOOLEAN]

\* The exception types the decorated function raises, both subclasses of
\* Exception, and the values it returns.
FuncExceptionTypes == {"ValueError", "KeyError"}
FuncReturns(v) == [ok |-> TRUE, ret |-> v, type |-> "", at |-> 0]
\* The exception object raised by the call of func in attempt k.
FuncRaises(t, k) == [ok |-> FALSE, ret |-> 0, type |-> t, at |-> k]
FuncOutcomes(k) == {FuncReturns(7)} \cup {FuncRaises(t, k) : t \in FuncExceptionTypes}

\* The argument checks of retry: the name of the exception it raises, ""
\* when the arguments are accepted.
RetryValidation(cfg) ==
    IF cfg.attempts <= 0 THEN "ValueError"
    ELSE IF cfg.delay < 0 THEN "ValueError"
    ELSE IF cfg.max_delay < 0 THEN "ValueError"
    ELSE IF cfg.scale <= 0 THEN "ValueError"
    ELSE IF ~cfg.jitter.tuple /\ cfg.jitter.n < 0 THEN "ValueError"
    ELSE ""

\* jitter: truthy unless it is the number 0.
JitterOn(jitter) == jitter.tuple \/ jitter.n # 0

\* if jitter and not isinstance(jitter, tuple): jitter = (0, jitter)
NormalJitter(jitter) ==
    IF JitterOn(jitter) /\ ~jitter.tuple THEN JitterTuple(0, jitter.n)
    ELSE jitter

\* An except clause that catches every exception.
Retryable_CatchAll(exc, exceptions) == TRUE

\* except exceptions: the exception is an instance of a listed type.
Retryable(exc, exceptions) == "Exception" \in exceptions \/ exc.type \in exceptions

Min(a, b) == IF a <= b THEN a ELSE b
Max(a, b) == IF a >= b THEN a ELSE b

\* random(start, stop) on integers: any integer of the range, the bounds
\* swapped when stop < start.
Random(start, stop) == Min(start, stop)..Max(start, stop)

\* The values random(*jitter) can give in the backoff, 0 standing for no
\* draw when jitter is off.
JitterDraws(jitter) ==
    IF JitterOn(jitter) THEN Random(jitter.lo, jitter.hi) ELSE {0}

FuncEvent(attempt, outcome) ==
    [ev |-> "func", attempt |-> attempt, outcome |-> outcome, seconds |-> 0]
ObserverEvent(attempt, exc) ==
    [ev |-> "on_exception", attempt |-> attempt, outcome |-> exc, seconds |-> 0]
SleepEvent(attempt, seconds) ==
    [ev |-> "sleep", attempt |-> attempt, outcome |-> FuncReturns(0),
     seconds |-> seconds]

RetryRest ==
    <<chainVars, tokenVars, resolverVars, memoVars, idVars, moreVars>>

InitRetry ==
    /\ rtcfg \in RetryArgs
    /\ rtattempt = 0 /\ rtdelay = 0
    /\ rtpc = "new" /\ rtlog = <<>> /\ rtout = FuncReturns(0)
    /\ chains = <<>> /\ wrappers = <<>> /\ log = <<>> /\ captured = <<>>
    /\ last = Outcome("init", 0, "", TRUE, 0, <<>>, NoExc, 0)
    /\ ncalls = 0
    /\ tvalue = <<>> /\ tokens = <<>> /\ tpc = "idle"
    /\ robj = 0 /\ rset = 0 /\ rlast = 0 /\ rpc = "idle"
    /\ MemoIdle /\ IdIdle
    /\ TapIdle /\ ThreadsIdle /\ RangeIdle

\* retry(attempts, delay, max_delay, scale, jitter, exceptions,
\* on_exception) and the decoration of func.
Decorate ==
    /\ rtpc = "new"
    /\ IF RetryValidation(rtcfg) = ""
       THEN /\ rtcfg' = [rtcfg EXCEPT !.jitter = NormalJitter(rtcfg.jitter)]
            /\ rtpc' = "decorated"
            /\ UNCHANGED rtout
       ELSE /\ rtout' = FuncRaises(RetryValidation(rtcfg), 0)
            /\ rtpc' = "rejected"
            /\ UNCHANGED rtcfg
    /\ UNCHANGED <<rtattempt, rtdelay, rtlog, RetryRest>>

\* decorated(*args, **kwargs): delay_time = delay, and the loop is entered.
CallDecorated ==
    /\ rtpc = "decorated"
    /\ rtdelay' = rtcfg.delay
    /\ rtattempt' = 1
    /\ rtpc' = "try"
    /\ UNCHANGED <<rtcfg, rtlog, rtout, RetryRest>>

\* A try that calls func and returns None instead of its result.
TryFunc_DropsResult(outcome) ==
    /\ rtpc = "try"
    /\ rtlog' = Append(rtlog, FuncEvent(rtattempt, outcome))
    /\ rtout' = IF outcome.ok THEN FuncReturns(0) ELSE outcome
    /\ rtpc' = IF ~outcome.ok /\ Retryable(outcome, rtcfg.exceptions)
               THEN "except" ELSE "done"
    /\ UNCHANGED <<rtcfg, rtattempt, rtdelay, RetryRest>>

\* try: return func(*args, **kwargs). A return ends the call, an exception
\* of a listed type enters the except block, any other leaves the call.
TryFunc(outcome) ==
    /\ rtpc = "try"
    /\ rtlog' = Append(rtlog, FuncEvent(rtattempt, outcome))
    /\ rtout' = outcome
    /\ rtpc' = IF ~outcome.ok /\ Retryable(outcome, rtcfg.exceptions)
               THEN "except" ELSE "done"
    /\ UNCHANGED <<rtcfg, rtattempt, rtdelay, RetryRest>>

\* The head of the except block, with no observer call.
ExceptHead_NoObserver ==
    /\ rtpc = "except"
    /\ UNCHANGED rtlog
    /\ rtpc' = IF rtattempt = rtcfg.attempts THEN "done" ELSE "backoff"
    /\ UNCHANGED <<rtcfg, rtattempt, rtdelay, rtout, RetryRest>>

\* The head of the except block, sleeping once more before the re-raise.
ExceptHead_SleepBeforeRaise ==
    /\ rtpc = "except"
    /\ rtlog' = (IF rtcfg.on_exception
                 THEN Append(rtlog, ObserverEvent(rtattempt, rtout))
                 ELSE rtlog)
                \o (IF rtattempt = rtcfg.attempts
                    THEN <<SleepEvent(rtattempt, rtdelay)>> ELSE <<>>)
    /\ rtpc' = IF rtattempt = rtcfg.attempts THEN "done" ELSE "backoff"
    /\ UNCHANGED <<rtcfg, rtattempt, rtdelay, rtout, RetryRest>>

\* The head of the except block, re-raising one attempt early.
ExceptHead_RaiseEarly ==
    /\ rtpc = "except"
    /\ rtlog' = IF rtcfg.on_exception
                THEN Append(rtlog, ObserverEvent(rtattempt, rtout))
                ELSE rtlog
    /\ rtpc' = IF rtattempt + 1 >= rtcfg.attempts THEN "done" ELSE "backoff"
    /\ UNCHANGED <<rtcfg, rtattempt, rtdelay, rtout, RetryRest>>

\* The head of the except block: on_exception(exc, attempt) when given, then
\* the re-raise when this was the last attempt.
ExceptHead ==
    /\ rtpc = "except"
    /\ rtlog' = IF rtcfg.on_exception
                THEN Append(rtlog, ObserverEvent(rtattempt, rtout))
                ELSE rtlog
    /\ rtpc' = IF rtattempt = rtcfg.attempts THEN "done" ELSE "backoff"
    /\ UNCHANGED <<rtcfg, rtattempt, rtdelay, rtout, RetryRest>>

\* delay_time after the jitter draw r.
Jittered(delay_time, jitter, r) ==
    IF JitterOn(jitter) THEN delay_time + Max(0, r) ELSE delay_time

\* A backoff that sleeps without applying max_delay.
Capped_NoCap(delay_time, max_delay) == delay_time

\* if max_delay: delay_time = min(delay_time, max_delay)
Capped(delay_time, max_delay) ==
    IF max_delay # 0 THEN Min(delay_time, max_delay) ELSE delay_time

\* A backoff that scales before it sleeps.
Backoff_ScaleFirst(r) ==
    /\ rtpc = "backoff"
    /\ LET d == Capped(Jittered(rtdelay, rtcfg.jitter, r) * rtcfg.scale,
                       rtcfg.max_delay)
       IN  /\ rtlog' = Append(rtlog, SleepEvent(rtattempt, d))
           /\ rtdelay' = d
    /\ rtattempt' = rtattempt + 1
    /\ rtpc' = "try"
    /\ UNCHANGED <<rtcfg, rtout, RetryRest>>

\* The rest of the except block: jitter, the cap, time.sleep(delay_time),
\* the scaling, and the next round of the loop.
Backoff(r) ==
    /\ rtpc = "backoff"
    /\ LET jittered == Jittered(rtdelay, rtcfg.jitter, r)
           capped == Capped(jittered, rtcfg.max_delay)
       IN  IF jittered < 0
           THEN /\ rtdelay' = jittered
                /\ UNCHANGED rtlog
           ELSE /\ rtlog' = Append(rtlog, SleepEvent(rtattempt, capped))
                /\ rtdelay' = capped * rtcfg.scale
    /\ rtattempt' = rtattempt + 1
    /\ rtpc' = "try"
    /\ UNCHANGED <<rtcfg, rtout, RetryRest>>

NextRetry ==
    \/ Decorate
    \/ CallDecorated
    \/ \E outcome \in FuncOutcomes(rtattempt) : TryFunc(outcome)
    \/ ExceptHead
    \/ \E r \in JitterDraws(rtcfg.jitter) : Backoff(r)

SpecRetry == InitRetry /\ [][NextRetry]_vars

\* ------------------------------------------------------------------ memoize

\* The (positional, keyword) arguments the memoized function is called with.
MemoArgs ==
    {[args |-> <<1>>, kargs |-> {}], [args |-> <<2>>, kargs |-> {}],
     [args |-> <<1, 2>>, kargs |-> {}], [args |-> <<>>, kargs |-> {}],
     [args |-> <<1>>, kargs |-> {<<"b", 2>>}]}

RECURSIVE FormatItems(_)
\* The items of a tuple of integers, separated by ", ".
FormatItems(args) ==
    IF args = <<>> THEN <<>>
    ELSE IF Len(args) = 1 THEN to_string(args[1])
    ELSE to_string(args[1]) \o <<",", " ">> \o FormatItems(Tail(args))

\* str(args) for a tuple of integers: (), (1,), (1, 2)
FormatTuple(args) ==
    <<"(">> \o FormatItems(args)
        \o (IF Len(args) = 1 THEN <<",">> ELSE <<>>) \o <<")">>

\* str(kwargs) for at most one keyword argument with a one-character name and
\* an integer value: {}, {'b': 2}
FormatDict(kargs) ==
    IF kargs = {} THEN <<"{", "}">>
    ELSE LET e == CHOOSE e \in kargs : TRUE
         IN  <<"{", "'", e[1], "'", ":", " ">> \o to_string(e[2]) \o <<"}">>

\* f"{args}{kwargs}"
FormatKey(call) == FormatTuple(call.args) \o FormatDict(call.kargs)

\* The resolver the model passes when it passes one: lambda *args, **kwargs:
\* args[0], which raises IndexError without positional arguments.
ResolverCall(call) ==
    IF call.args = <<>> THEN FuncRaises("IndexError", 0)
    ELSE FuncReturns(call.args[1])

\* The first statement of memoized(): the cache key, or the exception the
\* resolver raised.
CacheKey(resolver, call) ==
    IF resolver
    THEN IF ResolverCall(call).ok
         THEN FuncReturns(IntKey(ResolverCall(call).ret))
         ELSE ResolverCall(call)
    ELSE FuncReturns(StrKey(FormatKey(call)))

\* key in memoized.cache, memoized.cache[key]
CacheHas(cache, key) == \E e \in cache : e[1] = key
CacheGet(cache, key) == (CHOOSE e \in cache : e[1] = key)[2]
\* memoized.cache[key] = value
CachePut(cache, key, value) == {e \in cache : e[1] # key} \cup {<<key, value>>}

\* What the wrapped func does in one invocation: it returns 1 or 2, or raises.
MemoFuncOutcomes(k) == {FuncReturns(1), FuncReturns(2), FuncRaises("ValueError", k)}

MemoInvocation(key, call, outcome) ==
    [key |-> key, call |-> call, outcome |-> outcome]
MemoResult(keyed, key, outcome) ==
    [keyed |-> keyed, key |-> key, outcome |-> outcome]

MemoRest ==
    <<chainVars, tokenVars, resolverVars, retryVars, idVars, moreVars>>

InitMemo ==
    /\ mresolver \in BOOLEAN
    /\ mcache = {} /\ mlog = <<>>
    /\ mlast = MemoResult(FALSE, StrKey(<<>>), FuncReturns(0))
    /\ mcount = 0
    /\ chains = <<>> /\ wrappers = <<>> /\ log = <<>> /\ captured = <<>>
    /\ last = Outcome("init", 0, "", TRUE, 0, <<>>, NoExc, 0)
    /\ ncalls = 0
    /\ tvalue = <<>> /\ tokens = <<>> /\ tpc = "idle"
    /\ robj = 0 /\ rset = 0 /\ rlast = 0 /\ rpc = "idle"
    /\ RetryIdle /\ IdIdle
    /\ TapIdle /\ ThreadsIdle /\ RangeIdle

\* A memoized() that calls func and stores its result on every call.
MemoizedCall_AlwaysStore(call, outcome) ==
    /\ mcount < MaxMemoCalls
    /\ mcount' = mcount + 1
    /\ LET k == CacheKey(mresolver, call)
       IN  IF ~k.ok
           THEN /\ mlast' = MemoResult(FALSE, StrKey(<<>>), k)
                /\ UNCHANGED <<mcache, mlog>>
           ELSE /\ mlog' = Append(mlog, MemoInvocation(k.ret, call, outcome))
                /\ mcache' = IF outcome.ok
                             THEN CachePut(mcache, k.ret, outcome.ret)
                             ELSE mcache
                /\ mlast' = MemoResult(TRUE, k.ret, outcome)
    /\ UNCHANGED <<mresolver, MemoRest>>

\* A memoized() that stores None for the key when func raises.
MemoizedCall_StoresOnRaise(call, outcome) ==
    /\ mcount < MaxMemoCalls
    /\ mcount' = mcount + 1
    /\ LET k == CacheKey(mresolver, call)
       IN  IF ~k.ok
           THEN /\ mlast' = MemoResult(FALSE, StrKey(<<>>), k)
                /\ UNCHANGED <<mcache, mlog>>
           ELSE IF ~CacheHas(mcache, k.ret)
           THEN /\ mlog' = Append(mlog, MemoInvocation(k.ret, call, outcome))
                /\ mcache' = CachePut(mcache, k.ret, outcome.ret)
                /\ mlast' = MemoResult(TRUE, k.ret, outcome)
           ELSE /\ mlast' = MemoResult(TRUE, k.ret,
                                       FuncReturns(CacheGet(mcache, k.ret)))
                /\ UNCHANGED <<mcache, mlog>>
    /\ UNCHANGED <<mresolver, MemoRest>>

\* memoized(*args, **kwargs), called by one thread at a time: the key, the
\* call of func when the key is not in the cache, and the return of the
\* cached result. An exception of the resolver or of func leaves the call.
MemoizedCall(call, outcome) ==
    /\ mcount < MaxMemoCalls
    /\ mcount' = mcount + 1
    /\ LET k == CacheKey(mresolver, call)
       IN  IF ~k.ok
           THEN /\ mlast' = MemoResult(FALSE, StrKey(<<>>), k)
                /\ UNCHANGED <<mcache, mlog>>
           ELSE IF ~CacheHas(mcache, k.ret)
           THEN /\ mlog' = Append(mlog, MemoInvocation(k.ret, call, outcome))
                /\ mcache' = IF outcome.ok
                             THEN CachePut(mcache, k.ret, outcome.ret)
                             ELSE mcache
                /\ mlast' = MemoResult(TRUE, k.ret, outcome)
           ELSE /\ mlast' = MemoResult(TRUE, k.ret,
                                       FuncReturns(CacheGet(mcache, k.ret)))
                /\ UNCHANGED <<mcache, mlog>>
    /\ UNCHANGED <<mresolver, MemoRest>>

NextMemo ==
    \E call \in MemoArgs : \E outcome \in MemoFuncOutcomes(Len(mlog) + 1) :
        MemoizedCall(call, outcome)

SpecMemo == InitMemo /\ [][NextMemo]_vars

\* ------------------------------------------------------ memoize in threads

Threads == 1..MaxThreads

\* The calls the threads make: two of them have the same cache key.
ThreadArgs == {[args |-> <<1>>, kargs |-> {}], [args |-> <<2>>, kargs |-> {}]}

\* What the wrapped func does when thread t invokes it: it returns a value
\* of that invocation, or raises.
ThreadFuncOutcomes(t) == {FuncReturns(t), FuncRaises("ValueError", t)}

MemoThread(pc, call, key, val, out) ==
    [pc |-> pc, call |-> call, key |-> key, val |-> val, out |-> out]

\* The steps of memoized() as the threads take them, in order.
ThreadEvent(ev, t, key, hit, outcome) ==
    [ev |-> ev, t |-> t, key |-> key, hit |-> hit, outcome |-> outcome]

ThreadRest ==
    <<chainVars, tokenVars, resolverVars, retryVars, idVars, tapVars,
      rangeVars, mlast, mcount>>

InitThreads ==
    /\ mresolver \in BOOLEAN
    /\ mcache = {} /\ mlog = <<>>
    /\ mlast = MemoResult(FALSE, StrKey(<<>>), FuncReturns(0))
    /\ mcount = 0
    /\ mthreads = [t \in Threads |->
                      MemoThread("idle", [args |-> <<>>, kargs |-> {}],
                                 StrKey(<<>>), 0, FuncReturns(0))]
    /\ mlock \in {[used |-> u, owner |-> 0] : u \in BOOLEAN}
    /\ chains = <<>> /\ wrappers = <<>> /\ log = <<>> /\ captured = <<>>
    /\ last = Outcome("init", 0, "", TRUE, 0, <<>>, NoExc, 0)
    /\ ncalls = 0
    /\ tvalue = <<>> /\ tokens = <<>> /\ tpc = "idle"
    /\ robj = 0 /\ rset = 0 /\ rlast = 0 /\ rpc = "idle"
    /\ RetryIdle /\ IdIdle
    /\ TapIdle /\ RangeIdle

\* The lock after thread t left memoized().
Released(t) == IF mlock.used THEN [mlock EXCEPT !.owner = 0] ELSE mlock

\* Thread t enters memoized(*args, **kwargs), with the callers' lock when
\* they use one, and computes the key.
ThreadKey(t, call) ==
    /\ mthreads[t].pc = "idle"
    /\ mlock.used => mlock.owner = 0
    /\ LET k == CacheKey(mresolver, call)
       IN  IF ~k.ok
           THEN /\ mthreads' = [mthreads EXCEPT ![t] =
                                   MemoThread("done", call, StrKey(<<>>), 0, k)]
                /\ UNCHANGED mlock
           ELSE /\ mthreads' = [mthreads EXCEPT ![t] =
                                   MemoThread("check", call, k.ret, 0,
                                              FuncReturns(0))]
                /\ mlock' = IF mlock.used THEN [mlock EXCEPT !.owner = t]
                            ELSE mlock
    /\ UNCHANGED <<mresolver, mcache, mlog, ThreadRest>>

\* A check that never finds the key.
ThreadCheck_AlwaysMiss(t) ==
    /\ mthreads[t].pc = "check"
    /\ mlog' = Append(mlog, ThreadEvent("check", t, mthreads[t].key, FALSE,
                                        FuncReturns(0)))
    /\ mthreads' = [mthreads EXCEPT ![t].pc = "call"]
    /\ UNCHANGED <<mresolver, mcache, mlock, ThreadRest>>

\* if key not in memoized.cache
ThreadCheck(t) ==
    /\ mthreads[t].pc = "check"
    /\ mlog' = Append(mlog, ThreadEvent("check", t, mthreads[t].key,
                                        CacheHas(mcache, mthreads[t].key),
                                        FuncReturns(0)))
    /\ mthreads' = [mthreads EXCEPT ![t].pc =
                       IF CacheHas(mcache, mthreads[t].key) THEN "return"
                       ELSE "call"]
    /\ UNCHANGED <<mresolver, mcache, mlock, ThreadRest>>

\* func(*args, **kwargs): other threads run while it does.
ThreadCallFunc(t, outcome) ==
    /\ mthreads[t].pc = "call"
    /\ mlog' = Append(mlog, ThreadEvent("call", t, mthreads[t].key, FALSE,
                                        outcome))
    /\ mthreads' = [mthreads EXCEPT ![t] =
                       IF outcome.ok
                       THEN [@ EXCEPT !.pc = "store", !.val = outcome.ret]
                       ELSE [@ EXCEPT !.pc = "done", !.out = outcome]]
    /\ mlock' = IF outcome.ok THEN mlock ELSE Released(t)
    /\ UNCHANGED <<mresolver, mcache, ThreadRest>>

\* memoized.cache[key] = <what func returned>
ThreadStore(t) ==
    /\ mthreads[t].pc = "store"
    /\ mcache' = CachePut(mcache, mthreads[t].key, mthreads[t].val)
    /\ mlog' = Append(mlog, ThreadEvent("store", t, mthreads[t].key, FALSE,
                                        FuncReturns(mthreads[t].val)))
    /\ mthreads' = [mthreads EXCEPT ![t].pc = "return"]
    /\ UNCHANGED <<mresolver, mlock, ThreadRest>>

\* return memoized.cache[key]
ThreadReturn(t) ==
    /\ mthreads[t].pc = "return"
    /\ mthreads' = [mthreads EXCEPT ![t] =
                       [@ EXCEPT !.pc = "done",
                                 !.out = FuncReturns(
                                     CacheGet(mcache, mthreads[t].key))]]
    /\ mlock' = Released(t)
    /\ UNCHANGED <<mresolver, mcache, mlog, ThreadRest>>

NextThreads ==
    \/ \E t \in Threads, call \in ThreadArgs : ThreadKey(t, call)
    \/ \E t \in Threads : ThreadCheck(t)
    \/ \E t \in Threads :
          \E outcome \in ThreadFuncOutcomes(t) : ThreadCallFunc(t, outcome)
    \/ \E t \in Threads : ThreadStore(t)
    \/ \E t \in Threads : ThreadReturn(t)

SpecThreads == InitThreads /\ [][NextThreads]_vars

\* ---------------------------------------------------------------- unique_id

\* The prefix argument: None, a string or an integer.
PrefixNone == [kind |-> "none", s |-> <<>>, n |-> 0]
PrefixStr(s) == [kind |-> "str", s |-> s, n |-> 0]
PrefixInt(n) == [kind |-> "int", s |-> <<>>, n |-> n]

\* The prefixes the model passes: None, 'id_' and the integer 1.
PrefixArgs == {PrefixNone, PrefixStr(<<"i", "d", "_">>), PrefixInt(1)}

\* prefix = "" if prefix is None else pyd.to_string(prefix)
PrefixText(prefix) ==
    IF prefix.kind = "none" THEN <<>>
    ELSE IF prefix.kind = "str" THEN prefix.s
    ELSE to_string(prefix.n)

\* f"{prefix}{ID_COUNTER}", counter being ID_COUNTER after the increment.
unique_id(prefix, counter) == PrefixText(prefix) \o to_string(counter)

IdRest ==
    <<chainVars, tokenVars, resolverVars, retryVars, memoVars, moreVars>>

InitIds ==
    /\ ID_COUNTER = 0
    /\ ids = <<>>
    /\ chains = <<>> /\ wrappers = <<>> /\ log = <<>> /\ captured = <<>>
    /\ last = Outcome("init", 0, "", TRUE, 0, <<>>, NoExc, 0)
    /\ ncalls = 0
    /\ tvalue = <<>> /\ tokens = <<>> /\ tpc = "idle"
    /\ robj = 0 /\ rset = 0 /\ rlast = 0 /\ rpc = "idle"
    /\ RetryIdle /\ MemoIdle
    /\ TapIdle /\ ThreadsIdle /\ RangeIdle

\* unique_id(prefix)
UniqueId(prefix) ==
    /\ ID_COUNTER < MaxIds
    /\ ID_COUNTER' = ID_COUNTER + 1
    /\ ids' = Append(ids, unique_id(prefix, ID_COUNTER + 1))
    /\ UNCHANGED IdRest

NextIds == \E prefix \in PrefixArgs : UniqueId(prefix)

SpecIds == InitIds /\ [][NextIds]_vars

\* ----------------------------------------------------- range_, range_right

RangeValues == (0 - MaxRange)..MaxRange

\* The positional arguments: none to four integers.
RangeArgs == UNION {[1..n -> RangeValues] : n \in 0..4}

\* args after the first if statement of base_range: (start, stop, step), with
\* nostep when step is None.
NormalRangeArgs(args) ==
    IF Len(args) >= 3
    THEN [start |-> args[1], stop |-> args[2], step |-> args[3],
          nostep |-> FALSE]
    ELSE IF Len(args) = 2
    THEN [start |-> args[1], stop |-> args[2], step |-> 0, nostep |-> TRUE]
    ELSE [start |-> 0, stop |-> args[1], step |-> 0, nostep |-> TRUE]

\* math.ceil(a / b) for integers a and b, b not 0.
CeilDiv(a, b) ==
    IF b > 0 THEN 0 - ((0 - a) \div b) ELSE 0 - (a \div (0 - b))

\* step or 1
StepOr1(step) == IF step # 0 THEN step ELSE 1

\* int(max([math.ceil((stop - start) / (step or 1)), 0]))
RangeLength(start, stop, step) ==
    Max(CeilDiv(stop - start, StepOr1(step)), 0)

\* The while loop of gen(): the values it yields.
RECURSIVE Yield(_, _, _)
Yield(start, step, length) ==
    IF length = 0 THEN <<>>
    ELSE <<start>> \o Yield(start + step, step, length - 1)

\* A generator from the right that starts one step too far.
gen_StartsAtStop(args, from_right) ==
    IF args = <<>> THEN <<>>
    ELSE LET a == NormalRangeArgs(args)
             step == IF a.nostep
                     THEN (IF a.start < a.stop THEN 1 ELSE 0 - 1)
                     ELSE a.step
             length == RangeLength(a.start, a.stop, step)
         IN  IF from_right
             THEN Yield(a.start + step * length, 0 - step, length)
             ELSE Yield(a.start, step, length)

\* gen(), consumed to its end: the values it yields.
gen(args, from_right) ==
    IF args = <<>> THEN <<>>
    ELSE LET a == NormalRangeArgs(args)
             step == IF a.nostep
                     THEN (IF a.start < a.stop THEN 1 ELSE 0 - 1)
                     ELSE a.step
             length == RangeLength(a.start, a.stop, step)
         IN  IF from_right
             THEN Yield(a.start + (step * length) - step, 0 - step, length)
             ELSE Yield(a.start, step, length)

\* base_range(*args, from_right=...), for integer arguments.
base_range(args, from_right) == gen(args, from_right)

\* list(range_(*args)), list(range_right(*args))
range_(args) == base_range(args, FALSE)
range_right(args) == base_range(args, TRUE)

RangeRest ==
    <<chainVars, tokenVars, resolverVars, retryVars, memoVars, idVars,
      tapVars, threadVars>>

InitRange ==
    /\ rngargs \in RangeArgs
    /\ rngleft = <<>> /\ rngright = <<>> /\ rngpc = "new"
    /\ chains = <<>> /\ wrappers = <<>> /\ log = <<>> /\ captured = <<>>
    /\ last = Outcome("init", 0, "", TRUE, 0, <<>>, NoExc, 0)
    /\ ncalls = 0
    /\ tvalue = <<>> /\ tokens = <<>> /\ tpc = "idle"
    /\ robj = 0 /\ rset = 0 /\ rlast = 0 /\ rpc = "idle"
    /\ RetryIdle /\ MemoIdle /\ IdIdle
    /\ TapIdle /\ ThreadsIdle

\* list(range_(*args))
Range ==
    /\ rngpc \in {"new", "right"}
    /\ rngleft' = range_(rngargs)
    /\ rngpc' = IF rngpc = "new" THEN "left" ELSE "done"
    /\ UNCHANGED <<rngargs, rngright, RangeRest>>

\* list(range_right(*args))
RangeRight ==
    /\ rngpc \in {"new", "left"}
    /\ rngright' = range_right(rngargs)
    /\ rngpc' = IF rngpc = "new" THEN "right" ELSE "done"
    /\ UNCHANGED <<rngargs, rngleft, RangeRest>>

NextRange == Range \/ RangeRight

SpecRange == InitRange /\ [][NextRange]_vars

\* ---------------------------------------------------- chaining: properties

RECURSIVE WrapperPath(_, _)
\* The ChainWrappers a wrapper's unwrap goes through, earliest first.
WrapperPath(ws, w) ==
    IF IsChainWrapper(ws[w].value)
    THEN Append(WrapperPath(ws, ws[w].value.v), w)
    ELSE <<w>>

\* The pending calls of chain c, earliest first.
ChainPath(c) ==
    IF IsChainWrapper(chains[c].value)
    THEN WrapperPath(wrappers, chains[c].value.v)
    ELSE <<>>

\* The plain value the pending calls of chain c start from.
PathSeed(c) ==
    IF ChainPath(c) = <<>> THEN chains[c].value.v
    ELSE wrappers[ChainPath(c)[1]].value.v

\* No call of chain c has run yet.
Fresh(c) ==
    \A i \in DOMAIN ChainPath(c), k \in DOMAIN log : log[k].w # ChainPath(c)[i]

\* The arguments builder w was invoked with, when it was invoked once.
BuiltOnce(w) == Cardinality({k \in DOMAIN captured : captured[k].w = w}) = 1
Written(w) == captured[CHOOSE k \in DOMAIN captured : captured[k].w = w]

\* Chain c was written as chain(seed).f1(..).f2(..)...: every builder on its
\* path was invoked once.
Linear(c) == \A i \in DOMAIN ChainPath(c) : BuiltOnce(ChainPath(c)[i])

WrittenCalls(c) ==
    [i \in DOMAIN ChainPath(c) |->
        [method |-> wrappers[ChainPath(c)[i]].method,
         args |-> Written(ChainPath(c)[i]).args,
         kargs |-> Written(ChainPath(c)[i]).kargs]]

RECURSIVE EagerCompose(_, _, _)
\* fn(...f2(f1(v, ..), ..)...) computed eagerly, left to right, from call i
\* on: the outcome and the number of functions invoked.
EagerCompose(v, calls, i) ==
    IF i > Len(calls) THEN [ok |-> TRUE, ret |-> v, n |-> 0]
    ELSE LET r == RegistryCall(calls[i].method, v, calls[i].args,
                               calls[i].kargs)
         IN  IF r.ok
             THEN LET rest == EagerCompose(r.ret, calls, i + 1)
                  IN  [rest EXCEPT !.n = rest.n + 1]
             ELSE [ok |-> FALSE, ret |-> 0, n |-> 1]

\* The registry invocations made by the step.
NewEntries == SubSeq(log', Len(log) + 1, Len(log'))

\* C1: the first value() of a freshly built linear chain of n calls invokes
\* the n functions once each, in the order written, with the arguments
\* written, and returns what composing the calls eagerly returns (when a call
\* raises, both stop there).
C1_FirstValueIsEagerComposition ==
    [][\A c \in 1..Len(chains) :
        (last'.op = "value" /\ last'.target = c /\ Fresh(c) /\ Linear(c)) =>
            LET path == ChainPath(c)
                calls == WrittenCalls(c)
                e == EagerCompose(PathSeed(c), calls, 1)
            IN  /\ Len(NewEntries) = e.n
                /\ last'.invoked = e.n
                /\ \A i \in 1..e.n :
                      /\ NewEntries[i].w = path[i]
                      /\ NewEntries[i].method = calls[i].method
                      /\ NewEntries[i].args = calls[i].args
                      /\ NewEntries[i].kargs = calls[i].kargs
                /\ last'.ok = e.ok
                /\ e.ok => last'.ret = e.ret /\ e.n = Len(path)
      ]_vars

\* chain(3).add(4).multiply(2).value() has returned 14 after invoking add,
\* then multiply.
C1_Witness ==
    /\ last.op = "value" /\ last.ok /\ last.ret = 14 /\ last.invoked = 2
    /\ Len(log) = 2
    /\ log[1].method = "add" /\ log[1].value = 3 /\ log[1].args = <<4>>
    /\ log[2].method = "multiply" /\ log[2].value = 7 /\ log[2].args = <<2>>

C3_ValueIsMemoized ==
    [][\A c \in 1..Len(chains) :
        /\ (last'.op = "value" /\ last'.target = c /\ last'.ok) =>
              chains'[c].value = Val(last'.ret)
        /\ ~IsChainWrapper(chains[c].value) => chains'[c] = chains[c]
        /\ (~IsChainWrapper(chains[c].value) /\ last'.op = "value"
              /\ last'.target = c) =>
              /\ log' = log /\ last'.invoked = 0
              /\ last'.ok /\ last'.ret = chains[c].value.v
      ]_vars

\* value() on a Chain that was built from a pending call has returned without
\* invoking anything: an earlier call resolved it.
C3_Witness ==
    /\ last.op = "value" /\ last.ok /\ last.invoked = 0
    /\ captured[last.target].w # 0
    /\ \E k \in DOMAIN log :
          log[k].w = captured[last.target].w /\ ~log[k].raised
    /\ last.ret = chains[last.target].value.v

\* C4: accessing a name that the registry does not bind to a callable raises
\* InvalidMethod carrying the name, at access time, invokes nothing and
\* changes no chain and no wrapper.
C4_InvalidMethodAtAccess ==
    [][(last'.op = "getattr" /\ ~Callable(last'.name)) =>
          /\ ~last'.ok
          /\ last'.exc.type = "InvalidMethod"
          /\ last'.exc.msg = <<"Invalid pydash method: ", last'.name>>
          /\ last'.invoked = 0
          /\ log' = log /\ chains' = chains /\ wrappers' = wrappers
      ]_vars

\* InvalidMethod has been raised for an unregistered name accessed on a
\* Pending chain, before any value() call.
C4_Witness ==
    /\ last.op = "getattr" /\ ~last.ok /\ last.name = "not_a_real_fn"
    /\ last.exc.type = "InvalidMethod"
    /\ IsChainWrapper(chains[last.target].value)
    /\ log = <<>>

\* C5: each DeferredCall (ChainWrapper) is resolved at most once, its
\* operation never invoked a second time, and no two DeferredCalls share the
\* same upstream DeferredCall.
C5_ResolvedAtMostOnce ==
    /\ \A w \in 1..Len(wrappers) :
          Cardinality({k \in DOMAIN log : log[k].w = w}) <= 1
    /\ \A w1, w2 \in 1..Len(wrappers) :
          (w1 # w2 /\ IsChainWrapper(wrappers[w1].value)
             /\ IsChainWrapper(wrappers[w2].value)) =>
              wrappers[w1].value # wrappers[w2].value

\* C6: finalizing the chain a builder call yielded passes the operation
\* exactly the args and namedArgs of that call, whatever happened in between.
C6_ArgsCapturedOnce ==
    [][\A c \in 1..Len(chains) :
        (last'.op \in {"value", "to_string"} /\ last'.target = c
           /\ IsChainWrapper(chains[c].value)) =>
            \A i \in DOMAIN NewEntries :
                NewEntries[i].w = chains[c].value.v =>
                    /\ NewEntries[i].args = captured[c].args
                    /\ NewEntries[i].kargs = captured[c].kargs
      ]_vars

\* C7: when the k-th pending operation raises during value(), value() raises
\* that same exception, the operations before it ran and returned, none after
\* it is invoked, and the Chain keeps the value slot it had.
C7_ExceptionPropagates ==
    [][\A c \in 1..Len(chains) :
        (last'.op = "value" /\ last'.target = c /\ ~last'.ok) =>
            LET path == ChainPath(c)
                k == Len(NewEntries)
            IN  /\ k >= 1 /\ k <= Len(path)
                /\ \A i \in 1..k : NewEntries[i].w = path[i]
                /\ \A i \in 1..(k - 1) : ~NewEntries[i].raised
                /\ NewEntries[k].raised
                /\ last'.exc = NewEntries[k].exc
                /\ last'.exc.type = "TypeError"
                /\ last'.invoked = k
                /\ chains'[c] = chains[c]
      ]_vars

\* value() on a chain of two pending operations has raised what the first
\* one raised; the second was not invoked.
C7_Witness ==
    /\ last.op = "value" /\ ~last.ok /\ last.invoked = 1
    /\ Len(ChainPath(last.target)) = 2
    /\ Len(log) = 1 /\ log[1].raised /\ log[1].exc = last.exc
    /\ log[1].w = ChainPath(last.target)[1]

\* ---------------------------------------------------------- tap: properties

\* The registry invocations of tap in the log, in the order they ran.
TapEntries == SelectSeq(log, LAMBDA e : e.method = "tap")

\* The positions of the log where tap ran.
TapPositions == {i \in 1..Len(log) : log[i].method = "tap"}

\* C21: tap(value, interceptor) calls the interceptor exactly once, with
\* value, and returns value itself whatever the interceptor returns.  As a step
\* of a chain every tap that runs calls its interceptor once with the value the
\* step before it produced, and the step after it (or the caller of value(),
\* when tap is the last step) receives that same value.
C21_TapPassesValueThrough ==
    /\ tappc = "direct" =>
          /\ Len(taps) = 1
          /\ taps[1].arg = last.target
          /\ taps[1].outcome.ok => last.ok /\ last.ret = last.target
    /\ tappc = "done" =>
          /\ Len(taps) = Len(TapEntries)
          /\ \A k \in 1..Len(taps) : taps[k].arg = TapEntries[k].value
          /\ \A i \in TapPositions :
                ~log[i].raised =>
                    IF i < Len(log) THEN log[i + 1].value = log[i].value
                    ELSE last.ok /\ last.ret = log[i].value

\* A chain whose tap, with an interceptor returning something else than the
\* value, ran between two other steps and passed the value through.
C21_Witness ==
    /\ tappc = "done"
    /\ last.ok
    /\ \E i \in TapPositions :
          /\ 1 < i /\ i < Len(log)
          /\ log[i].args[1].ok /\ log[i].args[1].ret # log[i].value
          /\ log[i + 1].value = log[i].value
          /\ log[i].value # log[1].value

\* --------------------------------------------------- tokenizer: properties

\* The text is an optional minus sign followed by one or more digits.
IsIntText(t) ==
    LET d == IF t # <<>> /\ t[1] = "-" THEN Tail(t) ELSE t
    IN  d # <<>> /\ \A i \in DOMAIN d : IsDigit(d[i])

\* Where the bracketed integer that starts at position i of s ends; 0 when
\* none starts there.
BracketEnd(s, i) ==
    IF s[i] = "[" /\ \E j \in (i + 1)..Len(s) :
                        s[j] = "]" /\ IsIntText(SubSeq(s, i + 1, j - 1))
    THEN CHOOSE j \in (i + 1)..Len(s) :
             s[j] = "]" /\ IsIntText(SubSeq(s, i + 1, j - 1))
    ELSE 0

RECURSIVE Pow10(_)
Pow10(n) == IF n = 0 THEN 1 ELSE 10 * Pow10(n - 1)

RECURSIVE SumTo(_, _)
\* f[1] + ... + f[n]
SumTo(f, n) == IF n = 0 THEN 0 ELSE f[n] + SumTo(f, n - 1)

\* The integer an optional minus sign and digits denote.
IntTextValue(t) ==
    LET d == IF t[1] = "-" THEN Tail(t) ELSE t
        abs == SumTo([i \in DOMAIN d |->
                        DigitValue(d[i]) * Pow10(Len(d) - i)], Len(d))
    IN  IF t[1] = "-" THEN 0 - abs ELSE abs

\* The tokens so far, with the run of characters read since the last
\* delimiter added as a Mapping-kind token when it is not empty.
Flush(out, run) ==
    IF run = <<>> THEN out ELSE Append(out, PathToken(StrKey(run), "dict"))

RECURSIVE Scan(_, _, _, _)
\* A left-to-right scan of a path string without backslashes, from position
\* i on: a dot ends the current run, a bracketed integer ends it and is a
\* Sequence-kind token itself, any other character joins the run.
Scan(s, i, run, out) ==
    IF i > Len(s) THEN Flush(out, run)
    ELSE IF s[i] = "." THEN Scan(s, i + 1, <<>>, Flush(out, run))
    ELSE IF BracketEnd(s, i) > 0
         THEN Scan(s, BracketEnd(s, i) + 1, <<>>,
                   Append(Flush(out, run),
                          PathToken(IntKey(IntTextValue(
                              SubSeq(s, i + 1, BracketEnd(s, i) - 1))),
                              "list")))
    ELSE Scan(s, i + 1, Append(run, s[i]), out)

\* C10: for a path string containing '.' or '[' and no backslash,
\* to_path_tokens yields, left to right, one Sequence-kind token with the
\* parsed integer for every bracketed integer and one Mapping-kind token for
\* every non-empty run of other characters between delimiters.
C10_BracketAndDotTokens ==
    (/\ tpc = "done"
     /\ tvalue.kind = "str"
     /\ Contains(tvalue.s, ".") \/ Contains(tvalue.s, "[")
     /\ ~Contains(tvalue.s, "\\"))
        => tokens = Scan(tvalue.s, 1, <<>>, <<>>)

\* 'a[0].b' has been tokenized to a, 0, b.
C10_Witness ==
    /\ tpc = "done"
    /\ tvalue = StrValue(<<"a", "[", "0", "]", ".", "b">>)
    /\ tokens = <<PathToken(StrKey(<<"a">>), "dict"),
                  PathToken(IntKey(0), "list"),
                  PathToken(StrKey(<<"b">>), "dict")>>

\* ------------------------------------------------ path resolver: properties

\* The latest operation read the path the latest set wrote.
ReadBack == rset.done /\ rlast.op = "get" /\ rlast.path = rset.path

RECURSIVE Shaped(_, _, _)
\* The structure cur fits tokens i..: cur is a container of the kind token i
\* addresses, and what token i addresses in it is absent or fits the tokens
\* after it.
Shaped(cur, toks, i) ==
    /\ KindOf(cur) = TokenKind(toks[i])
    /\ i < Len(toks) =>
         \/ ~Lookup(cur, toks[i]).found
         \/ Shaped(Lookup(cur, toks[i]).v, toks, i + 1)

NonIndexable(cur) == cur.t \notin {"map", "list"}
KindMismatch(cur, tok) ==
    \/ cur.t = "list" /\ tok.key.str
    \/ cur.t = "map" /\ ~tok.key.str
KeyAbsent(cur, tok) == cur.t = "map" /\ \A e \in cur.m : e[1] # tok.key
IndexOutOfRange(cur, tok) ==
    /\ cur.t = "list" /\ ~tok.key.str
    /\ tok.key.n >= Len(cur.l) \/ tok.key.n < 0 - Len(cur.l)
MissAt(cur, tok) ==
    \/ NonIndexable(cur)
    \/ KindMismatch(cur, tok)
    \/ KeyAbsent(cur, tok)
    \/ IndexOutOfRange(cur, tok)

Child(cur, tok) ==
    IF cur.t = "map" THEN MapGet(cur.m, tok.key)
    ELSE cur.l[IF tok.key.n >= 0 THEN tok.key.n + 1
               ELSE Len(cur.l) + tok.key.n + 1]

RECURSIVE Resolves(_, _, _)
Resolves(cur, toks, i) ==
    \/ i > Len(toks)
    \/ /\ ~MissAt(cur, toks[i])
       /\ Resolves(Child(cur, toks[i]), toks, i + 1)

BackslashesBefore(s, i) ==
    LET starts == {j \in 1..i : \A k \in j..(i - 1) : s[k] = "\\"}
    IN  i - (CHOOSE j \in starts : \A k \in starts : j <= k)

RECURSIVE Unescaped(_)
\* The raw characters of a key with each '\.' replaced by '.' and each '\\'
\* by '\', read left to right.
Unescaped(raw) ==
    IF Len(raw) < 2 THEN raw
    ELSE IF raw[1] = "\\" /\ raw[2] \in {"\\", "."}
         THEN <<raw[2]>> \o Unescaped(SubSeq(raw, 3, Len(raw)))
         ELSE <<raw[1]>> \o Unescaped(Tail(raw))

FlushRaw(out, run) ==
    IF run = <<>> THEN out
    ELSE Append(out, PathToken(StrKey(Unescaped(run)), "dict"))

RECURSIVE ScanEscaped(_, _, _, _)
\* The scan of a path string in which only the delimiter dot is consumed: a
\* dot after an even number of backslashes ends the current run, a bracketed
\* integer ends it and is a Sequence-kind token, every other character,
\* backslashes included, joins the run, which is unescaped when it ends.
ScanEscaped(s, i, run, out) ==
    IF i > Len(s) THEN FlushRaw(out, run)
    ELSE IF s[i] = "." /\ BackslashesBefore(s, i) % 2 = 0
         THEN ScanEscaped(s, i + 1, <<>>, FlushRaw(out, run))
    ELSE IF BracketEnd(s, i) > 0
         THEN ScanEscaped(s, BracketEnd(s, i) + 1, <<>>,
                   Append(FlushRaw(out, run),
                          PathToken(IntKey(IntTextValue(
                              SubSeq(s, i + 1, BracketEnd(s, i) - 1))),
                              "list")))
    ELSE ScanEscaped(s, i + 1, Append(run, s[i]), out)

\* C11: in a path string only the delimiter dot itself is consumed: a '.'
\* after an odd number of backslashes is no delimiter, a '.' after an even
\* number is, and every Mapping token's key is the raw characters between
\* its delimiters with '\.' read as '.' and '\\' as '\' (an escaped
\* backslash before a delimiter dot stays as one backslash at the end of the
\* preceding key).
C11_OnlyDotConsumed ==
    (/\ tpc = "done"
     /\ tvalue.kind = "str"
     /\ Contains(tvalue.s, ".") \/ Contains(tvalue.s, "["))
        => tokens = ScanEscaped(tvalue.s, 1, <<>>, <<>>)

\* C12: the empty string yields exactly one Mapping-kind token whose key is
\* the empty string; for a string that contains a delimiter, leading,
\* trailing or consecutive dots never produce a token with an empty key.
C12_EmptyStringAndNoPhantomTokens ==
    (tpc = "done" /\ tvalue.kind = "str") =>
        /\ tvalue.s = <<>> => tokens = <<PathToken(StrKey(<<>>), "dict")>>
        /\ (Contains(tvalue.s, ".") \/ Contains(tvalue.s, "[")) =>
              \A i \in DOMAIN tokens :
                  /\ tokens[i].token
                  /\ tokens[i].key.str => tokens[i].key.s # <<>>

\* '.a..' (a leading dot, consecutive trailing dots) has been tokenized to
\* the single key a.
C12_Witness ==
    /\ tpc = "done"
    /\ tvalue = StrValue(<<".", "a", ".", ".">>)
    /\ tokens = <<PathToken(StrKey(<<"a">>), "dict")>>

\* C13: when the path given to the tokenizer is already a sequence of keys,
\* the result has exactly one token per element, in order and unparsed, and
\* each token's container hint is Sequence if its element is an integer and
\* Mapping otherwise.
C13_ListElementsBecomeTokens ==
    (tpc = "done" /\ tvalue.kind = "list") =>
        /\ Len(tokens) = Len(tvalue.l)
        /\ \A i \in DOMAIN tokens :
              /\ tokens[i].key = tvalue.l[i]
              /\ tokens[i].default_factory =
                    IF tvalue.l[i].str THEN "dict" ELSE "list"

\* --------------------------------------------------------- retry: properties

IsFuncEvent(e) == e.ev = "func"
IsObserverEvent(e) == e.ev = "on_exception"
IsSleepEvent(e) == e.ev = "sleep"

\* The calls of func, of on_exception and of time.sleep so far, in order.
FuncCalls == SelectSeq(rtlog, IsFuncEvent)
ObserverCalls == SelectSeq(rtlog, IsObserverEvent)
Sleeps == SelectSeq(rtlog, IsSleepEvent)

\* The exception is one the except clause of this retry catches.
Caught(outcome) == ~outcome.ok /\ Retryable(outcome, rtcfg.exceptions)

\* The decorated call has ended and every call of func raised a retryable
\* exception.
FailedThroughout ==
    /\ rtpc = "done"
    /\ FuncCalls # <<>>
    /\ \A i \in DOMAIN FuncCalls : Caught(FuncCalls[i].outcome)

\* C14: a function decorated with retry(attempts=n, ...) that raises a
\* retryable exception on every call is invoked exactly n times, and the
\* exception raised by the n-th call is re-raised to the caller.
C14_InvokedAttemptsTimesThenReraised ==
    /\ Len(FuncCalls) <= rtcfg.attempts
    /\ FailedThroughout =>
          /\ Len(FuncCalls) = rtcfg.attempts
          /\ \A i \in DOMAIN FuncCalls : FuncCalls[i].attempt = i
          /\ rtout = FuncCalls[rtcfg.attempts].outcome
          /\ ~rtout.ok /\ rtout.at = rtcfg.attempts

\* retry(attempts=3, delay=0) on a function that always raises ValueError:
\* three calls, and the third call's exception reaches the caller.
C14_Witness ==
    /\ FailedThroughout
    /\ rtcfg.attempts = 3 /\ rtcfg.delay = 0
    /\ Len(FuncCalls) = 3
    /\ rtout = FuncRaises("ValueError", 3)

\* C15: on_exception is called once for every caught retryable exception,
\* the last one included, with the caught exception and the 1-based attempt
\* number, after that attempt's failure and before the following sleep or
\* the re-raise; for a function failing on all n attempts it is called
\* exactly n times with attempt = 1..n in order.
C15_ObserverOnEveryCaughtException ==
    (rtpc \notin {"new", "rejected"} /\ rtcfg.on_exception) =>
        /\ \A i \in DOMAIN rtlog :
              /\ (IsFuncEvent(rtlog[i]) /\ Caught(rtlog[i].outcome)) =>
                    IF i = Len(rtlog) THEN rtpc = "except"
                    ELSE rtlog[i + 1] =
                            ObserverEvent(rtlog[i].attempt, rtlog[i].outcome)
              /\ IsObserverEvent(rtlog[i]) =>
                    /\ i > 1
                    /\ rtlog[i - 1] =
                            FuncEvent(rtlog[i].attempt, rtlog[i].outcome)
                    /\ Caught(rtlog[i].outcome)
              /\ IsSleepEvent(rtlog[i]) =>
                    /\ i > 1
                    /\ IsObserverEvent(rtlog[i - 1])
                    /\ rtlog[i - 1].attempt = rtlog[i].attempt
        /\ (rtpc = "done" /\ ~rtout.ok /\ Caught(rtout)) =>
              rtlog[Len(rtlog)] = ObserverEvent(rtcfg.attempts, rtout)
        /\ FailedThroughout =>
              /\ Len(ObserverCalls) = rtcfg.attempts
              /\ \A k \in DOMAIN ObserverCalls :
                    /\ ObserverCalls[k].attempt = k
                    /\ ObserverCalls[k].outcome = FuncCalls[k].outcome

\* Three failed attempts with an observer: it was called for attempts 1, 2
\* and 3, the last time right before the re-raise.
C15_Witness ==
    /\ FailedThroughout
    /\ rtcfg.on_exception /\ rtcfg.attempts = 3
    /\ Len(ObserverCalls) = 3
    /\ rtlog[Len(rtlog)] = ObserverEvent(3, rtout)
    /\ Len(Sleeps) = 2

\* C16: an exception of a type not covered by `exceptions` propagates to the
\* caller at once: no further attempt, no on_exception call for it and no
\* sleep.
C16_UncoveredExceptionPropagates ==
    rtpc \notin {"new", "rejected"} =>
        \A i \in DOMAIN rtlog :
            (/\ IsFuncEvent(rtlog[i])
             /\ ~rtlog[i].outcome.ok
             /\ rtlog[i].outcome.type \notin rtcfg.exceptions
             /\ "Exception" \notin rtcfg.exceptions)
                => /\ i = Len(rtlog)
                   /\ rtpc = "done"
                   /\ rtout = rtlog[i].outcome

\* retry(exceptions=(ValueError,), on_exception=...): the first call raises
\* ValueError and is retried, the second raises KeyError, which ends the
\* call.
C16_Witness ==
    /\ rtpc = "done"
    /\ rtcfg.exceptions = {"ValueError"} /\ rtcfg.on_exception
    /\ rtcfg.attempts = 3
    /\ Len(rtlog) = 4
    /\ rtlog[1] = FuncEvent(1, FuncRaises("ValueError", 1))
    /\ IsObserverEvent(rtlog[2]) /\ IsSleepEvent(rtlog[3])
    /\ rtlog[4] = FuncEvent(2, FuncRaises("KeyError", 2))
    /\ rtout = FuncRaises("KeyError", 2)

\* Jitter is off and the cap does not cut the first delay.
PlainFirstDelay ==
    /\ ~JitterOn(rtcfg.jitter)
    /\ rtcfg.max_delay = 0 \/ rtcfg.delay <= rtcfg.max_delay

RECURSIVE Power(_, _)
Power(b, e) == IF e = 0 THEN 1 ELSE b * Power(b, e - 1)

SucceededAtLast ==
    /\ rtpc = "done"
    /\ FuncCalls # <<>>
    /\ FuncCalls[Len(FuncCalls)].outcome.ok

\* C23: when the function decorated with retry(attempts=n) first succeeds on
\* its k-th call, k <= n, the wrapper returns that call's result, the function
\* was invoked exactly k times (attempts 1..k, the first k-1 of them failing
\* with a caught exception) and is not invoked again, exactly k-1 sleeps
\* occurred, and no exception reaches the caller.
C23_SuccessOnKthCallEndsRetry ==
    /\ \A i \in DOMAIN rtlog :
          (IsFuncEvent(rtlog[i]) /\ rtlog[i].outcome.ok) =>
              i = Len(rtlog) /\ rtpc = "done"
    /\ SucceededAtLast =>
          LET k == Len(FuncCalls)
          IN  /\ k <= rtcfg.attempts
              /\ \A i \in 1..k : FuncCalls[i].attempt = i
              /\ \A i \in 1..(k - 1) : Caught(FuncCalls[i].outcome)
              /\ rtout = FuncCalls[k].outcome
              /\ rtout.ok /\ rtout.ret = 7
              /\ Len(Sleeps) = k - 1

\* retry(attempts=3) on a function that raised twice and then returned 7: the
\* caller gets 7 after three calls and two sleeps.
C23_Witness ==
    /\ SucceededAtLast
    /\ rtcfg.attempts = 3
    /\ Len(FuncCalls) = 3
    /\ Len(Sleeps) = 2
    /\ rtout = FuncReturns(7)

\* The event before position i of the log that is not an observer call.
RECURSIVE AttemptBefore(_)
AttemptBefore(i) ==
    IF i <= 1 THEN 0
    ELSE IF IsObserverEvent(rtlog[i - 1]) THEN AttemptBefore(i - 1)
    ELSE i - 1

\* C24: retry sleeps only between attempts.  Every sleep follows the failed
\* call of func of its attempt (with at most the observer call between them)
\* and is followed by the next attempt's call of func; the log neither starts
\* nor ends a finished call with a sleep; a function failing on all n attempts
\* causes exactly n-1 sleeps.
C24_SleepsOnlyBetweenAttempts ==
    rtpc \notin {"new", "rejected"} =>
        /\ \A i \in DOMAIN rtlog :
              IsSleepEvent(rtlog[i]) =>
                  /\ AttemptBefore(i) > 0
                  /\ IsFuncEvent(rtlog[AttemptBefore(i)])
                  /\ Caught(rtlog[AttemptBefore(i)].outcome)
                  /\ rtlog[AttemptBefore(i)].attempt = rtlog[i].attempt
                  /\ rtlog[i].attempt < rtcfg.attempts
                  /\ IF i < Len(rtlog)
                     THEN /\ IsFuncEvent(rtlog[i + 1])
                          /\ rtlog[i + 1].attempt = rtlog[i].attempt + 1
                     ELSE rtpc = "try" /\ rtattempt = rtlog[i].attempt + 1
        /\ \A i \in DOMAIN rtlog :
              (IsFuncEvent(rtlog[i]) /\ rtlog[i].attempt > 1) =>
                  IsSleepEvent(rtlog[i - 1])
        /\ FailedThroughout => Len(Sleeps) = rtcfg.attempts - 1

\* retry(attempts=3, delay=2) on a function that failed three times: two
\* sleeps, one after the first and one after the second failure.
C24_Witness ==
    /\ FailedThroughout
    /\ rtcfg.attempts = 3 /\ rtcfg.delay = 2
    /\ Len(FuncCalls) = 3
    /\ Len(Sleeps) = 2
    /\ IsFuncEvent(rtlog[Len(rtlog)]) \/ IsObserverEvent(rtlog[Len(rtlog)])

\* ------------------------------------------------------- memoize: properties

\* The wrapped func has been invoked at most once for every cache key.
InvokedOncePerKey(lg) ==
    \A i \in DOMAIN lg : \A j \in DOMAIN lg :
        i < j => lg[i].key # lg[j].key

\* For every cache key, func has not been invoked again after an invocation
\* for that key returned.
NotInvokedAfterReturn(lg) ==
    \A i \in DOMAIN lg : \A j \in DOMAIN lg :
        (i < j /\ lg[i].key = lg[j].key) => ~lg[i].outcome.ok

\* What a call of the memoized function does to the cache: a call whose key
\* is stored returns the stored result without invoking func, and no stored
\* entry is replaced or removed.
CacheStep ==
    /\ \A e \in mcache : e \in mcache'
    /\ \A e \in mcache' : \A f \in mcache' : e[1] = f[1] => e = f
    /\ (mlast'.keyed /\ CacheHas(mcache, mlast'.key)) =>
          /\ mlog' = mlog
          /\ mcache' = mcache
          /\ mlast'.outcome = FuncReturns(CacheGet(mcache, mlast'.key))
    /\ (mlast'.keyed /\ mlast'.outcome.ok) =>
          <<mlast'.key, mlast'.outcome.ret>> \in mcache'

\* C19 as stated: over any sequence of sequential calls of a memoized
\* function, func is invoked at most once per cache key, every later call
\* with the same key returns the stored result, and a stored entry is never
\* replaced.
C19_InvokedAtMostOncePerKey ==
    [][mcount' = mcount + 1 => (CacheStep /\ InvokedOncePerKey(mlog'))]_vars

\* C19, amended: over any sequence of sequential calls of a memoized
\* function, func is not invoked again for a cache key once an invocation
\* for that key has returned (an invocation that raises stores nothing, and
\* the next call with that key invokes func again); every call whose key is
\* stored returns the stored result, and a stored entry is never replaced.
C19_InvokedAtMostOncePerStoredKey ==
    [][mcount' = mcount + 1 => (CacheStep /\ NotInvokedAfterReturn(mlog'))]_vars

\* With the resolver args[0]: the call (1,) stored 2, and the later call
\* (1, 2), which has the same key, returned the stored 2 without a second
\* invocation of func.
C19_Witness ==
    /\ mresolver
    /\ mcount = 2
    /\ Len(mlog) = 1
    /\ mlog[1] = MemoInvocation(IntKey(1), [args |-> <<1>>, kargs |-> {}],
                                FuncReturns(2))
    /\ mcache = {<<IntKey(1), 2>>}
    /\ mlast = MemoResult(TRUE, IntKey(1), FuncReturns(2))

\* What a call of the memoized function that ends with an exception does:
\* the exception is the resolver's (func is then not invoked) or that of the
\* invocation of func the call made, and the cache is as it was, with no entry
\* for the key.
RaisingStep ==
    ~mlast'.outcome.ok =>
        /\ mcache' = mcache
        /\ ~mlast'.keyed =>
              /\ mresolver
              /\ mlast'.outcome.type = "IndexError"
              /\ mlog' = mlog
        /\ mlast'.keyed =>
              /\ ~CacheHas(mcache', mlast'.key)
              /\ mlog' = Append(mlog, mlog'[Len(mlog')])
              /\ mlog'[Len(mlog')].key = mlast'.key
              /\ mlog'[Len(mlog')].outcome = mlast'.outcome
              /\ mlast'.outcome.type = "ValueError"

\* The call after one in which func raised, when it has the same key, invokes
\* func again.
InvokedAgainAfterRaise ==
    (~mlast.outcome.ok /\ mlast.keyed /\ mlast'.keyed
        /\ mlast'.key = mlast.key) =>
        /\ Len(mlog') = Len(mlog) + 1
        /\ mlog'[Len(mlog')].key = mlast.key
        /\ mlast'.outcome = mlog'[Len(mlog')].outcome

\* C25: when the wrapped func or the resolver raises inside a memoized call,
\* the exception propagates to the caller, the cache is left exactly as it
\* was, with no entry for that key, and the next call with the same key
\* invokes func again.
C25_RaiseLeavesCacheAlone ==
    [][mcount' = mcount + 1 => (RaisingStep /\ InvokedAgainAfterRaise)]_vars

\* func raised in a call with key '(1,){}', the cache stayed empty, and the
\* next call with that key invoked func again, which returned 2 and was stored.
C25_Witness ==
    /\ ~mresolver
    /\ mcount = 2
    /\ Len(mlog) = 2
    /\ mlog[1].key = mlog[2].key
    /\ mlog[1].call = [args |-> <<1>>, kargs |-> {}]
    /\ ~mlog[1].outcome.ok
    /\ mlog[2].outcome = FuncReturns(2)
    /\ mcache = {<<mlog[2].key, 2>>}
    /\ mlast = MemoResult(TRUE, mlog[2].key, FuncReturns(2))

\* --------------------------------------------- memoize in threads: properties

\* The position in the log of thread t's step ev, 0 when it has not taken it
\* (a thread makes one call, so it takes each step at most once).
StepAt(ev, t) ==
    IF \E i \in 1..Len(mlog) : mlog[i].ev = ev /\ mlog[i].t = t
    THEN CHOOSE i \in 1..Len(mlog) : mlog[i].ev = ev /\ mlog[i].t = t
    ELSE 0

\* The pairs of invocations of func for one key, the earlier of which returned.
RepeatedInvocations ==
    {p \in (1..Len(mlog)) \X (1..Len(mlog)) :
        /\ p[1] < p[2]
        /\ mlog[p[1]].ev = "call" /\ mlog[p[2]].ev = "call"
        /\ mlog[p[1]].key = mlog[p[2]].key
        /\ mlog[p[1]].outcome.ok}

\* C22: memoized() takes no lock.  When the callers hold a lock of their own
\* around it, func is never invoked again for a key after an invocation for
\* that key returned; without one, a second invocation happens exactly when
\* another thread's check of the cache came before the first thread's store,
\* that is when their check-then-store steps interleave, and never when the
\* calls follow one another.
C22_RepeatedInvocationOnlyWhenInterleaved ==
    /\ \A p \in RepeatedInvocations :
          /\ ~mlock.used
          /\ mlog[p[1]].t # mlog[p[2]].t
          /\ StepAt("check", mlog[p[2]].t) < p[2]
          /\ StepAt("store", mlog[p[1]].t) = 0
                \/ StepAt("check", mlog[p[2]].t) < StepAt("store", mlog[p[1]].t)
    /\ \A i \in 1..Len(mlog) :
          mlog[i].ev = "check" =>
              mlog[i].hit = (\E j \in 1..(i - 1) :
                                /\ mlog[j].ev = "store"
                                /\ mlog[j].key = mlog[i].key)
    /\ \A t \in Threads :
          mthreads[t].pc \in {"call", "store"} => StepAt("check", t) > 0
                                                  /\ ~mlog[StepAt("check", t)].hit

\* Two threads without a lock both missed the cache for the same key, both
\* invoked func, both invocations returned and both stored their result.
C22_Witness ==
    /\ ~mlock.used
    /\ \E p \in RepeatedInvocations :
          /\ mlog[p[2]].outcome.ok
          /\ StepAt("store", mlog[p[1]].t) > 0
          /\ StepAt("store", mlog[p[2]].t) > 0
          /\ mthreads[mlog[p[1]].t].pc = "done"
          /\ mthreads[mlog[p[2]].t].pc = "done"
          /\ mthreads[mlog[p[1]].t].out # mthreads[mlog[p[2]].t].out

\* ------------------------------------------- range_, range_right: properties

Reverse(seq) == [i \in 1..Len(seq) |-> seq[Len(seq) + 1 - i]]

\* The start, stop and step the arguments stand for: start defaults to 0,
\* step to 1 when start < stop and to -1 otherwise.
StartOf(args) == IF Len(args) = 1 THEN 0 ELSE args[1]
StopOf(args) == IF Len(args) = 1 THEN args[1] ELSE args[2]
StepOf(args) ==
    IF Len(args) = 3 THEN args[3]
    ELSE IF StartOf(args) < StopOf(args) THEN 1 ELSE 0 - 1

\* The least integer that is not below the quotient a / b, b not 0.
Ceiling(a, b) ==
    CHOOSE n \in (0 - 4 * (MaxRange + 1))..(4 * (MaxRange + 1)) :
        IF b > 0 THEN n * b >= a /\ (n - 1) * b < a
        ELSE n * b <= a /\ (n - 1) * b > a

\* max(ceil((stop - start) / (step or 1)), 0)
ElementCount(args) ==
    LET d == IF StepOf(args) = 0 THEN 1 ELSE StepOf(args)
        c == Ceiling(StopOf(args) - StartOf(args), d)
    IN  IF c > 0 THEN c ELSE 0

C20_IdsAreUnique ==
    \A i \in DOMAIN ids : \A j \in DOMAIN ids : i < j => ids[i] # ids[j]

====
